---------------------------- MODULE Spec2Model ----------------------------
(***************************************************************************)
(* AR display scaling of the 3DBigDataSpace viewer:                        *)
(*   - calculateARScaling      (src/lib/utils/arScaling.ts)                *)
(*   - scaleGlbForAR + cache   (glbScaler service, src/unnamed/part_009)   *)
(*   - GET /api/ar-glb         (endpoint, src/unnamed/part_002)            *)
(*                                                                         *)
(* JavaScript numbers are IEEE 754 binary64 values.  Dimensions and the    *)
(* maximum dimension are drawn from small naturals (exactly representable);*)
(* the quotient maxDimension / largestDimension and the products           *)
(* axis * scaleFactor are computed with binary64 rounding (53-bit          *)
(* significand, round to nearest, ties to even) in exact integer limbs.     *)
(***************************************************************************)
EXTENDS Integers, Sequences, FiniteSets, TLC

(***************************************************************************)
(* IEEE 754 binary64 arithmetic                                            *)
(***************************************************************************)

\* significand precision of a JavaScript number
MantBits == 53

\* Naturals wider than a machine word are sequences of limbs, least
\* significant first, each limb in 0..Base-1.
Base == 2^15

Limb(x, i) == IF i >= 1 /\ i <= Len(x) THEN x[i] ELSE 0

\* number of binary digits of a natural v < 2^30
BitLen(v) == CHOOSE n \in 0..30 : v < 2^n /\ (n = 0 \/ v >= 2^(n - 1))

TopLimb(x) == IF \E i \in 1..Len(x) : x[i] # 0
              THEN CHOOSE i \in 1..Len(x) : x[i] # 0 /\ \A j \in (i + 1)..Len(x) : x[j] = 0
              ELSE 0

BigBitLen(x) == IF TopLimb(x) = 0 THEN 0
                ELSE (TopLimb(x) - 1) * 15 + BitLen(x[TopLimb(x)])

\* binary digit i of x, digit 0 the least significant
BigBit(x, i) == (Limb(x, (i \div 15) + 1) \div 2^(i % 15)) % 2

\* x with exactly n limbs (high zero limbs added or dropped)
Canon(x, n) == [i \in 1..n |-> Limb(x, i)]

ShiftRight(x, n) ==
    [i \in 1..Len(x) |->
        (Limb(x, i + (n \div 15)) \div 2^(n % 15))
        + (Limb(x, i + (n \div 15) + 1) % 2^(n % 15)) * 2^(15 - (n % 15))]

ShiftLeft(x, n) ==
    [i \in 1..(Len(x) + (n \div 15) + 1) |->
        ((Limb(x, i - (n \div 15)) * 2^(n % 15)) % Base)
        + (Limb(x, i - (n \div 15) - 1) \div 2^(15 - (n % 15)))]

RECURSIVE BigMulCarry(_, _, _, _)
BigMulCarry(x, w, i, c) ==
    IF i > Len(x) THEN <<c % Base, c \div Base>>
    ELSE <<(x[i] * w + c) % Base>> \o BigMulCarry(x, w, i + 1, (x[i] * w + c) \div Base)

\* x * w for a natural w < Base
BigMulSmall(x, w) == BigMulCarry(x, w, 1, 0)

RECURSIVE BigDivStep(_, _, _, _)
BigDivStep(x, b, i, r) ==
    IF i = 0 THEN [q |-> <<>>, r |-> r]
    ELSE LET rest == BigDivStep(x, b, i - 1, (r * Base + x[i]) % b)
         IN [q |-> Append(rest.q, (r * Base + x[i]) \div b), r |-> rest.r]

\* quotient and remainder of x by a natural 0 < b < Base
BigDivSmall(x, b) == BigDivStep(x, b, Len(x), 0)

RECURSIVE BigIncFrom(_, _)
BigIncFrom(x, i) ==
    IF i > Len(x) THEN Append(x, 1)
    ELSE IF x[i] + 1 < Base THEN [x EXCEPT ![i] = x[i] + 1]
    ELSE BigIncFrom([x EXCEPT ![i] = 0], i + 1)

BigInc(x) == BigIncFrom(x, 1)

RECURSIVE BigDecFrom(_, _)
BigDecFrom(x, i) ==
    IF x[i] > 0 THEN [x EXCEPT ![i] = x[i] - 1]
    ELSE BigDecFrom([x EXCEPT ![i] = Base - 1], i + 1)

\* x - 1 for x > 0
BigDec(x) == BigDecFrom(x, 1)

\* A number is [k, s, e]: for k = "fin" its value is s * 2^e with s a
\* 53-bit natural (2^52 <= s < 2^53) held in SigLimbs limbs.
SigLimbs == (MantBits + 14) \div 15

Zero == [k |-> "zero", s |-> <<>>, e |-> 0]
Infinity == [k |-> "inf", s |-> <<>>, e |-> 0]
NaN == [k |-> "nan", s |-> <<>>, e |-> 0]

\* the two negative numbers the program can produce: -Infinity and -0
NegInfinity == [k |-> "-inf", s |-> <<>>, e |-> 0]
NegZero == [k |-> "-zero", s |-> <<>>, e |-> 0]

IsNegative(q) == q.k \in {"-inf", "-zero"}

Abs(q) == IF q.k = "-inf" THEN Infinity ELSE IF q.k = "-zero" THEN Zero ELSE q

\* -q for q one of 0, Infinity, NaN
Negate(q) == IF q.k = "inf" THEN NegInfinity ELSE IF q.k = "zero" THEN NegZero ELSE q

Fin(s, e) == [k |-> "fin", s |-> Canon(s, SigLimbs), e |-> e]

\* round the exact value  x * 2^e  (x > 0; when sticky, plus a nonzero
\* fraction below the last digit of x) to the nearest number, ties to even
Round(x, e, sticky) ==
    LET n == BigBitLen(x)
        d == n - MantBits
    IN IF d <= 0 THEN Fin(ShiftLeft(x, 0 - d), e + d)
       ELSE LET keep == ShiftRight(x, d)
                guard == BigBit(x, d - 1)
                tail == sticky \/ \E i \in 0..(d - 2) : BigBit(x, i) = 1
                up == guard = 1 /\ (tail \/ BigBit(keep, 0) = 1)
                s1 == IF up THEN BigInc(keep) ELSE keep
            IN IF BigBitLen(s1) > MantBits
               THEN Fin(ShiftRight(s1, 1), e + d + 1)
               ELSE Fin(s1, e + d)

\* the number whose value is the natural n < Base
Num(n) == IF n = 0 THEN Zero ELSE Round(<<n>>, 0, FALSE)

\* a / b for naturals a, b < Base, as JavaScript evaluates it: the
\* quotient of a * 2^t by b carries MantBits + 1 or more digits.  A
\* negative b stands for -Infinity (a > 0 then).
FDiv(a, b) ==
    IF b < 0 THEN NegZero
    ELSE IF b = 0 THEN (IF a = 0 THEN NaN ELSE Infinity)
    ELSE IF a = 0 THEN Zero
    ELSE LET t == MantBits + 1 + BitLen(b) - BitLen(a)
             qr == BigDivSmall(ShiftLeft(<<a>>, t), b)
         IN Round(qr.q, 0 - t, qr.r # 0)

RECURSIVE BigAddCarry(_, _, _, _)
BigAddCarry(x, y, i, c) ==
    IF i > Len(x) /\ i > Len(y) THEN <<c>>
    ELSE <<(Limb(x, i) + Limb(y, i) + c) % Base>>
            \o BigAddCarry(x, y, i + 1, (Limb(x, i) + Limb(y, i) + c) \div Base)

BigAdd(x, y) == BigAddCarry(x, y, 1, 0)

RECURSIVE BigMulFrom(_, _, _)
BigMulFrom(x, y, i) ==
    IF i > Len(y) THEN <<0>>
    ELSE BigAdd(BigMulSmall(x, y[i]), <<0>> \o BigMulFrom(x, y, i + 1))

\* x * y
BigMul(x, y) == BigMulFrom(x, y, 1)

\* a * b for numbers a, b >= 0, as JavaScript evaluates it
FMulMagnitude(a, b) ==
    CASE a.k = "nan" \/ b.k = "nan" -> NaN
      [] a.k = "inf" -> IF b.k = "zero" THEN NaN ELSE Infinity
      [] b.k = "inf" -> IF a.k = "zero" THEN NaN ELSE Infinity
      [] a.k = "zero" \/ b.k = "zero" -> Zero
      [] OTHER -> Round(BigMul(a.s, b.s), a.e + b.e, FALSE)

\* a * b as JavaScript evaluates it; a negative operand is -Infinity or
\* -0, so that a negative product is one of these too
FMul(a, b) ==
    IF IsNegative(a) # IsNegative(b)
    THEN Negate(FMulMagnitude(Abs(a), Abs(b)))
    ELSE FMulMagnitude(Abs(a), Abs(b))

\* the number of a measured length: a natural w < Base, or -Infinity,
\* which every negative w stands for
NumOfLength(w) == IF w < 0 THEN NegInfinity ELSE Num(w)

\* w * q for a measured length w and a number q
FMulNat(w, q) == FMul(NumOfLength(w), q)

\* the neighbours of a finite nonzero number in the binary64 grid
NextUp(q) ==
    IF BigBitLen(BigInc(q.s)) > MantBits
    THEN Fin(ShiftRight(BigInc(q.s), 1), q.e + 1)
    ELSE Fin(BigInc(q.s), q.e)

NextDown(q) ==
    IF BigBitLen(BigDec(q.s)) < MantBits
    THEN Fin(BigInc(ShiftLeft(BigDec(q.s), 1)), q.e - 1)
    ELSE Fin(BigDec(q.s), q.e)


\* a <= b for numbers that are zero or finite (all values here are >= 0)
BigLeq(x, y) ==
    \/ x = y
    \/ \E i \in 1..Len(x) : x[i] < y[i] /\ \A j \in (i + 1)..Len(x) : x[j] = y[j]

NumLeq(a, b) ==
    \/ a.k = "zero"
    \/ a.k = "fin" /\ b.k = "fin" /\ (a.e < b.e \/ (a.e = b.e /\ BigLeq(a.s, b.s)))

IsFiniteNum(q) == q.k \in {"zero", "fin"}

(***************************************************************************)
(* Bounds of the model                                                     *)
(***************************************************************************)

\* dimensions are drawn from 0..MaxSmallDim and from LargeDims (metres)
MaxSmallDim == 5
LargeDims == {20, 30, 47, 49, 50}
DimValues == (0..MaxSmallDim) \cup LargeDims

\* requested maximum dimensions are drawn from 1..MaxLimit (metres)
MaxLimit == 3

\* an optional value is <<>> (undefined) or <<v>>
Undefined == <<>>
Some(v) == <<v>>

VARIABLES
    calcArgs,     \* arguments of the calculateARScaling call under check
    calcResult,   \* its ARScalingResult, NoResult before the call
    cache,        \* scaledGlbCache: cache key -> [data, timestamp, result]
    writer,       \* history: cache key -> the (glbUrl, maxDimension) of the call that stored it
    now,          \* Date.now(), in milliseconds
    proc,         \* the requests and calls in flight
    trigger,      \* the AR trigger of the record page: its props, and what a click opened
    proxy         \* the fetchThroughProxy call in flight

(***************************************************************************)
(* src/lib/utils/arScaling.ts                                              *)
(***************************************************************************)

AR_MAX_DIMENSION_METERS == 2

Axes == {"width", "height", "depth"}

\* a parameter with a default value
OrDefault(arg, dflt) == IF arg = Undefined THEN dflt ELSE arg[1]

\* Math.max(width, height, depth)
MathMax3(w, h, d) == IF w >= h /\ w >= d THEN w ELSE IF h >= d THEN h ELSE d

largestAxis_strict(w, h, d) ==
    IF h > w /\ h > d THEN "height"
    ELSE IF d > w /\ d > h THEN "depth"
    ELSE "width"

largestAxis_depthFirst(w, h, d) ==
    IF d >= w /\ d >= h THEN "depth"
    ELSE IF h >= w /\ h >= d THEN "height"
    ELSE "width"

\* lines 71-76
largestAxisOf(w, h, d) ==
    IF h >= w /\ h >= d THEN "height"
    ELSE IF d >= w /\ d >= h THEN "depth"
    ELSE "width"

needsScaling_atLimit(largestDimension, maxDimension) == largestDimension >= maxDimension

\* line 79
needsScalingOf(largestDimension, maxDimension) == largestDimension > maxDimension

scaleFactor_inverted(needsScaling, largestDimension, maxDimension) ==
    IF needsScaling THEN FDiv(largestDimension, maxDimension) ELSE Num(1)

scaleFactor_unguarded(needsScaling, largestDimension, maxDimension) ==
    FDiv(maxDimension, largestDimension)

\* lines 80-82
scaleFactorOf(needsScaling, largestDimension, maxDimension) ==
    IF needsScaling THEN FDiv(maxDimension, largestDimension) ELSE Num(1)

\* lines 85-89
scaledDimensionsOf(dimensions, scaleFactor) ==
    [width |-> FMulNat(dimensions.width, scaleFactor),
     height |-> FMulNat(dimensions.height, scaleFactor),
     depth |-> FMulNat(dimensions.depth, scaleFactor)]

calculateARScaling(dimensions, maxDimensionArg) ==
    LET maxDimension == OrDefault(maxDimensionArg, AR_MAX_DIMENSION_METERS)
        width == dimensions.width
        height == dimensions.height
        depth == dimensions.depth
        largestDimension == MathMax3(width, height, depth)
        largestAxis == largestAxisOf(width, height, depth)
        needsScaling == needsScalingOf(largestDimension, maxDimension)
        scaleFactor == scaleFactorOf(needsScaling, largestDimension, maxDimension)
    IN [scaleFactor |-> scaleFactor,
        isScaled |-> needsScaling,
        originalDimensions |-> dimensions,
        scaledDimensions |-> scaledDimensionsOf(dimensions, scaleFactor),
        largestDimension |-> largestDimension,
        largestAxis |-> largestAxis]

requiresARScaling_atLimit(dimensions, maxDimensionArg) ==
    MathMax3(dimensions.width, dimensions.height, dimensions.depth)
        >= OrDefault(maxDimensionArg, AR_MAX_DIMENSION_METERS)

\* lines 139-144
requiresARScaling(dimensions, maxDimensionArg) ==
    MathMax3(dimensions.width, dimensions.height, dimensions.depth)
        > OrDefault(maxDimensionArg, AR_MAX_DIMENSION_METERS)

(***************************************************************************)
(* Strings.  URLs and cache keys are strings; where the code looks inside  *)
(* a string (endsWith, toLowerCase, parseFloat) it is a sequence of        *)
(* one-character strings.                                                  *)
(***************************************************************************)

EndsWith(s, suffix) ==
    /\ Len(s) >= Len(suffix)
    /\ SubSeq(s, Len(s) - Len(suffix) + 1, Len(s)) = suffix

\* String.prototype.toLowerCase on the characters the model's URLs use
LowerChar(c) ==
    CASE c = "A" -> "a" [] c = "B" -> "b" [] c = "G" -> "g" [] c = "L" -> "l"
      [] OTHER -> c

ToLowerCase(s) == [i \in 1..Len(s) |-> LowerChar(s[i])]

\* String.prototype.includes on a message held as a sequence of fragments
Includes(message, fragment) == \E i \in 1..Len(message) : message[i] = fragment

(***************************************************************************)
(* GLB assets.  A decoded document lists its scenes (each with the nodes   *)
(* attached directly to it and the bounds getBounds measures for it) and   *)
(* its nodes (local scale, children).  A byte sequence is a document in    *)
(* some byte layout, or bytes that are no GLB at all.                      *)
(***************************************************************************)

Dim(w, h, d) == [width |-> w, height |-> h, depth |-> d]

Vec3(x, y, z) == <<Num(x), Num(y), Num(z)>>

NoDocument == [defaultScene |-> 0, scenes |-> <<>>, nodes |-> <<>>]

\* a coordinate above every coordinate of a mesh: Infinity in a bounding box
CoordInfinity == 1000000

\* getBounds of a scene whose geometry spans min..max
Box(min, max) == [min |-> min, max |-> max]

\* getBounds of a scene without geometry: the box it starts from, with
\* min = Infinity and max = -Infinity on every axis
EmptyBox ==
    Box(<<CoordInfinity, CoordInfinity, CoordInfinity>>,
        <<0 - CoordInfinity, 0 - CoordInfinity, 0 - CoordInfinity>>)

\* a building of 50 x 30 x 20 m: one scene, root node 1 with child node 2
BuildingDoc ==
    [defaultScene |-> 1,
     scenes |-> <<[children |-> <<1>>, bounds |-> Box(<<0, 0, 0>>, <<50, 30, 20>>)]>>,
     nodes |-> <<[scale |-> Vec3(1, 1, 1), children |-> <<2>>],
                 [scale |-> Vec3(1, 1, 1), children |-> <<>>]>>]

\* a figurine of 1 x 2 x 1 m, no default scene declared: two scenes, the
\* first with root nodes 1 and 2 (node 2 already scaled by 2), the second
\* with root node 3
FigurineDoc ==
    [defaultScene |-> 0,
     scenes |-> <<[children |-> <<1, 2>>, bounds |-> Box(<<1, 0, 1>>, <<2, 2, 2>>)],
                 [children |-> <<3>>, bounds |-> Box(<<0, 0, 0>>, <<3, 3, 3>>)]>>,
     nodes |-> <<[scale |-> Vec3(1, 1, 1), children |-> <<>>],
                 [scale |-> Vec3(2, 2, 2), children |-> <<>>],
                 [scale |-> Vec3(1, 1, 1), children |-> <<>>]>>]

\* a single point at (1, 1, 1), of size 0 x 0 x 0: the default scene is
\* the second one (root node 2); the first scene (root node 1) is a cube
\* of 3 m
PointDoc ==
    [defaultScene |-> 2,
     scenes |-> <<[children |-> <<1>>, bounds |-> Box(<<0, 0, 0>>, <<3, 3, 3>>)],
                 [children |-> <<2>>, bounds |-> Box(<<1, 1, 1>>, <<1, 1, 1>>)]>>,
     nodes |-> <<[scale |-> Vec3(1, 1, 1), children |-> <<>>],
                 [scale |-> Vec3(1, 1, 1), children |-> <<>>]>>]

\* a scene whose only node carries no mesh
EmptySceneDoc ==
    [defaultScene |-> 1,
     scenes |-> <<[children |-> <<1>>, bounds |-> EmptyBox]>>,
     nodes |-> <<[scale |-> Vec3(1, 1, 1), children |-> <<>>]>>]

\* a valid GLB without any scene
SceneLessDoc ==
    [defaultScene |-> 0, scenes |-> <<>>,
     nodes |-> <<[scale |-> Vec3(1, 1, 1), children |-> <<>>]>>]

\* bytes as an exporter laid them out, and bytes as gltf-transform's
\* writer lays the same document out
Glb(layout, doc) == [layout |-> layout, doc |-> doc]

NotGlb == [layout |-> "garbage", doc |-> NoDocument]

\* NodeIO.readBinary: the document, or a failure for bytes that are no GLB
CanReadBinary(bytes) == bytes.layout # "garbage"
ReadBinary(bytes) == bytes.doc

\* NodeIO.writeBinary serialises the document afresh, in the writer's own
\* layout, whatever bytes the document was read from
WriteBinary(doc) == Glb("gltf-transform", doc)

(***************************************************************************)
(* The network: what each source URL serves                                *)
(***************************************************************************)

UrlBuilding == "https://zenodo.org/a.glb"
UrlFigurine == "https://files.zenodo.org/B.GLB"
UrlRepacked == "https://zenodo.org/a.glb?v:1"
UrlSceneLess == "https://zenodo.org/c.glb"
UrlNotGlb == "https://zenodo.org/d.glb"
UrlPoint == "https://zenodo.org/e.glb"
UrlEmptyScene == "https://zenodo.org/f.glb"

Serves(url) ==
    CASE url = UrlBuilding -> Glb("exporter", BuildingDoc)
      [] url = UrlFigurine -> Glb("exporter", FigurineDoc)
      [] url = UrlRepacked -> Glb("gltf-transform", FigurineDoc)
      [] url = UrlSceneLess -> Glb("exporter", SceneLessDoc)
      [] url = UrlPoint -> Glb("exporter", PointDoc)
      [] url = UrlEmptyScene -> Glb("exporter", EmptySceneDoc)
      [] OTHER -> NotGlb

\* how a fetch can end: rejected by the transport, or a response
FetchOutcomes ==
    {[settled |-> "rejected", status |-> 0],
     [settled |-> "response", status |-> 404],
     [settled |-> "response", status |-> 200]}

ResponseOk_always(status) == TRUE

\* line 74: response.ok
ResponseOk(status) == status >= 200 /\ status <= 299

(***************************************************************************)
(* glbScaler service (src/unnamed/part_009)                                *)
(***************************************************************************)

CACHE_TTL_MS == 60 * 60 * 1000

CLEANUP_THRESHOLD == 50

getCacheKey_urlOnly(url, maxDimension) == url

\* lines 48-50: `${url}:${maxDimension}`
getCacheKey(url, maxDimension) == url \o ":" \o ToString(maxDimension)

Restrict(f, S) == [k \in S |-> f[k]]

\* lines 55-62: the Map without the entries older than the TTL
cleanupCache(map, dateNow) ==
    Restrict(map, {k \in DOMAIN map : ~(dateNow - map[k].timestamp > CACHE_TTL_MS)})

isFresh_inclusive(entry, dateNow) == dateNow - entry.timestamp <= CACHE_TTL_MS

isFresh_never(entry, dateNow) == FALSE

\* line 98: Date.now() - cached.timestamp < CACHE_TTL_MS
isFresh(entry, dateNow) == dateNow - entry.timestamp < CACHE_TTL_MS

MapSet_keepFirst(map, key, value) ==
    [k \in DOMAIN map \cup {key} |-> IF k \in DOMAIN map THEN map[k] ELSE value]

\* Map.prototype.set
MapSet(map, key, value) ==
    [k \in DOMAIN map \cup {key} |-> IF k = key THEN value ELSE map[k]]

EmptyMap == [k \in {} |-> 0]

\* lines 201-206 (keys as a set: their order plays no part here)
getCacheStats(map) == [size |-> Cardinality(DOMAIN map), keys |-> DOMAIN map]

SelectScene_first(doc) == IF Len(doc.scenes) > 0 THEN 1 ELSE 0

\* line 120: getDefaultScene() || listScenes()[0]; 0 when there is none
SelectScene(doc) ==
    IF doc.defaultScene # 0 THEN doc.defaultScene
    ELSE IF Len(doc.scenes) > 0 THEN 1 ELSE 0

\* lines 125-134: bounds.max - bounds.min per axis
originalDimensionsOf(doc, scene) ==
    LET bounds == doc.scenes[scene].bounds
    IN Dim(bounds.max[1] - bounds.min[1],
           bounds.max[2] - bounds.min[2],
           bounds.max[3] - bounds.min[3])

scaleDecision_automaticFirst(options, largestDimension, maxDimension) ==
    IF largestDimension > maxDimension \/ options.forceScale
    THEN [scaleFactor |-> FDiv(maxDimension, largestDimension), wasScaled |-> TRUE]
    ELSE IF options.customScaleFactor # Undefined
    THEN [scaleFactor |-> options.customScaleFactor[1],
          wasScaled |-> options.customScaleFactor[1] # Num(1)]
    ELSE [scaleFactor |-> Num(1), wasScaled |-> FALSE]

scaleDecision_ignoreForce(options, largestDimension, maxDimension) ==
    IF options.customScaleFactor # Undefined
    THEN [scaleFactor |-> options.customScaleFactor[1],
          wasScaled |-> options.customScaleFactor[1] # Num(1)]
    ELSE IF largestDimension > maxDimension
    THEN [scaleFactor |-> FDiv(maxDimension, largestDimension), wasScaled |-> TRUE]
    ELSE [scaleFactor |-> Num(1), wasScaled |-> FALSE]

scaleDecision_atLimit(options, largestDimension, maxDimension) ==
    IF options.customScaleFactor # Undefined
    THEN [scaleFactor |-> options.customScaleFactor[1],
          wasScaled |-> options.customScaleFactor[1] # Num(1)]
    ELSE IF largestDimension >= maxDimension \/ options.forceScale
    THEN [scaleFactor |-> FDiv(maxDimension, largestDimension), wasScaled |-> TRUE]
    ELSE [scaleFactor |-> Num(1), wasScaled |-> FALSE]

\* lines 143-152
scaleDecision(options, largestDimension, maxDimension) ==
    IF options.customScaleFactor # Undefined
    THEN [scaleFactor |-> options.customScaleFactor[1],
          wasScaled |-> options.customScaleFactor[1] # Num(1)]
    ELSE IF largestDimension > maxDimension \/ options.forceScale
    THEN [scaleFactor |-> FDiv(maxDimension, largestDimension), wasScaled |-> TRUE]
    ELSE [scaleFactor |-> Num(1), wasScaled |-> FALSE]

ScaleRootNodes_replace(doc, scene, scaleFactor) ==
    LET roots == {doc.scenes[scene].children[i] : i \in 1..Len(doc.scenes[scene].children)}
    IN [doc EXCEPT !.nodes =
          [n \in 1..Len(doc.nodes) |->
              IF n \in roots
              THEN [doc.nodes[n] EXCEPT !.scale = <<scaleFactor, scaleFactor, scaleFactor>>]
              ELSE doc.nodes[n]]]

\* lines 163-170: every child of the scene gets scale * scaleFactor
ScaleRootNodes(doc, scene, scaleFactor) ==
    LET roots == {doc.scenes[scene].children[i] : i \in 1..Len(doc.scenes[scene].children)}
    IN [doc EXCEPT !.nodes =
          [n \in 1..Len(doc.nodes) |->
              IF n \in roots
              THEN [doc.nodes[n] EXCEPT !.scale =
                      <<FMul(doc.nodes[n].scale[1], scaleFactor),
                        FMul(doc.nodes[n].scale[2], scaleFactor),
                        FMul(doc.nodes[n].scale[3], scaleFactor)>>]
              ELSE doc.nodes[n]]]

\* lines 119-175 for a decoded document with a scene: the measured
\* dimensions, the decision and the document as it is handed to the writer
ProcessDocument(doc, options, maxDimension) ==
    LET scene == SelectScene(doc)
        original == originalDimensionsOf(doc, scene)
        largestDimension == MathMax3(original.width, original.height, original.depth)
        decision == scaleDecision(options, largestDimension, maxDimension)
    IN [scaleFactor |-> decision.scaleFactor,
        wasScaled |-> decision.wasScaled,
        originalDimensions |-> original,
        scaledDimensions |->
            [width |-> FMulNat(original.width, decision.scaleFactor),
             height |-> FMulNat(original.height, decision.scaleFactor),
             depth |-> FMulNat(original.depth, decision.scaleFactor)],
        document |-> IF decision.wasScaled
                     THEN ScaleRootNodes(doc, scene, decision.scaleFactor)
                     ELSE doc]

\* error messages, as the fragments the endpoint searches them for
DownloadFailedMessage(status) == <<"Failed to download", " GLB: ", ToString(status)>>
FetchRejectedMessage == <<"fetch failed">>
InvalidGlbMessage == <<"Invalid glTF 2.0 binary.">>
NoSceneMessage == <<"GLB has ", "no scene">>

(***************************************************************************)
(* GET /api/ar-glb (src/unnamed/part_002, lines 62-148)                    *)
(***************************************************************************)

UrlOtherHost == "https://notzenodo.org/a.glb"
UrlGltf == "https://zenodo.org/a.gltf"
UrlRelative == "zenodo.org/a.glb"

\* new URL(glbUrl): hostname and pathname of an absolute URL; it throws
\* for a string that is none
ParseURL(url) ==
    CASE url = UrlBuilding ->
          [ok |-> TRUE, hostname |-> <<"z", "e", "n", "o", "d", "o", ".", "o", "r", "g">>,
           pathname |-> <<"/", "a", ".", "g", "l", "b">>]
      [] url = UrlFigurine ->
          [ok |-> TRUE, hostname |-> <<"f", "i", "l", "e", "s", ".", "z", "e", "n", "o", "d", "o", ".", "o", "r", "g">>,
           pathname |-> <<"/", "B", ".", "G", "L", "B">>]
      [] url = UrlRepacked ->
          [ok |-> TRUE, hostname |-> <<"z", "e", "n", "o", "d", "o", ".", "o", "r", "g">>,
           pathname |-> <<"/", "a", ".", "g", "l", "b">>]
      [] url = UrlSceneLess ->
          [ok |-> TRUE, hostname |-> <<"z", "e", "n", "o", "d", "o", ".", "o", "r", "g">>,
           pathname |-> <<"/", "c", ".", "g", "l", "b">>]
      [] url = UrlNotGlb ->
          [ok |-> TRUE, hostname |-> <<"z", "e", "n", "o", "d", "o", ".", "o", "r", "g">>,
           pathname |-> <<"/", "d", ".", "g", "l", "b">>]
      [] url = UrlOtherHost ->
          [ok |-> TRUE, hostname |-> <<"n", "o", "t", "z", "e", "n", "o", "d", "o", ".", "o", "r", "g">>,
           pathname |-> <<"/", "a", ".", "g", "l", "b">>]
      [] url = UrlGltf ->
          [ok |-> TRUE, hostname |-> <<"z", "e", "n", "o", "d", "o", ".", "o", "r", "g">>,
           pathname |-> <<"/", "a", ".", "g", "l", "t", "f">>]
      [] OTHER -> [ok |-> FALSE, hostname |-> <<>>, pathname |-> <<>>]

\* lines 68-71
ALLOWED_DOMAINS == <<<<"z", "e", "n", "o", "d", "o", ".", "o", "r", "g">>,
                     <<"f", "i", "l", "e", "s", ".", "z", "e", "n", "o", "d", "o", ".", "o", "r", "g">>>>

\* lines 90-92
isAllowedHost(hostname) ==
    \E i \in 1..Len(ALLOWED_DOMAINS) :
        hostname = ALLOWED_DOMAINS[i] \/ EndsWith(hostname, <<".">> \o ALLOWED_DOMAINS[i])

Digits == <<"0", "1", "2", "3", "4", "5", "6", "7", "8", "9">>
IsDigit(c) == \E i \in 1..10 : Digits[i] = c
DigitValue(c) == (CHOOSE i \in 1..10 : Digits[i] = c) - 1

RECURSIVE DecimalValue(_)
DecimalValue(s) ==
    IF s = <<>> THEN 0
    ELSE 10 * DecimalValue(SubSeq(s, 1, Len(s) - 1)) + DigitValue(s[Len(s)])

\* parseFloat on strings of digits, "-" and letters (no ".", no exponent,
\* no white space): the longest prefix that is an optionally signed run of
\* digits, NaN when there is none
ParseFloat(s) ==
    LET neg == s # <<>> /\ s[1] = "-"
        body == IF neg THEN Tail(s) ELSE s
        n == CHOOSE k \in 0..Len(body) :
                /\ \A i \in 1..k : IsDigit(body[i])
                /\ (k = Len(body) \/ ~IsDigit(body[k + 1]))
    IN IF n = 0 THEN [nan |-> TRUE, value |-> 0]
       ELSE [nan |-> FALSE,
             value |-> IF neg THEN 0 - DecimalValue(SubSeq(body, 1, n))
                       ELSE DecimalValue(SubSeq(body, 1, n))]

MAX_DIMENSION_LIMIT == 100

maxDimensionRejected_noUpperLimit(parsed) == parsed.nan \/ parsed.value <= 0

\* line 107
maxDimensionRejected(parsed) ==
    parsed.nan \/ parsed.value <= 0 \/ parsed.value > MAX_DIMENSION_LIMIT

\* lines 74-111: the status of the error thrown by the validation (0 when
\* it passes) and the maxDimension handed on to scaleGlbForAR
Validate(request) ==
    LET glbUrl == request.url
        maxDimensionParam == request.maxDimension
        parsedUrl == ParseURL(glbUrl[1])
        parsed == ParseFloat(maxDimensionParam[1])
    IN IF glbUrl = Undefined \/ glbUrl = Some("") THEN [status |-> 400, maxDimension |-> 0]
       ELSE IF ~parsedUrl.ok THEN [status |-> 400, maxDimension |-> 0]
       ELSE IF ~isAllowedHost(parsedUrl.hostname) THEN [status |-> 403, maxDimension |-> 0]
       ELSE IF ~EndsWith(ToLowerCase(parsedUrl.pathname), <<".", "g", "l", "b">>)
            THEN [status |-> 400, maxDimension |-> 0]
       ELSE IF maxDimensionParam # Undefined /\ maxDimensionParam # Some(<<>>)
            THEN IF maxDimensionRejected(parsed)
                 THEN [status |-> 400, maxDimension |-> 0]
                 ELSE [status |-> 0, maxDimension |-> parsed.value]
       ELSE [status |-> 0, maxDimension |-> AR_MAX_DIMENSION_METERS]

NoBody == NotGlb

\* lines 120-133 (the numeric headers are renderings of the result and are
\* left out)
SuccessResponse(result) ==
    [status |-> 200, body |-> result.glbData,
     wasScaledHeader |-> IF result.wasScaled THEN "true" ELSE "false"]

ErrorResponse(status) == [status |-> status, body |-> NoBody, wasScaledHeader |-> ""]

ErrorStatus_noSceneInternal(message) ==
    IF Includes(message, "Failed to download") THEN 502 ELSE 500

\* lines 134-147
ErrorStatus(message) ==
    IF Includes(message, "Failed to download") THEN 502
    ELSE IF Includes(message, "no scene") THEN 422
    ELSE 500

NoResponse == [status |-> 0, body |-> NoBody, wasScaledHeader |-> ""]

(***************************************************************************)
(* State of the server process and of the requests in flight               *)
(***************************************************************************)

Procs == {"r1", "r2"}

\* the clock advances in steps of half the TTL, MaxClockSteps times at most
ClockStep == CACHE_TTL_MS \div 2
MaxClockSteps == 3

NoRequest == [url |-> Undefined, maxDimension |-> Undefined]
NoOptions == [maxDimension |-> Undefined, forceScale |-> FALSE, customScaleFactor |-> Undefined]
NoWork == [scaleFactor |-> Zero, wasScaled |-> FALSE,
           originalDimensions |-> Dim(0, 0, 0),
           scaledDimensions |-> [width |-> Zero, height |-> Zero, depth |-> Zero],
           document |-> NoDocument]
NoOutcome == [kind |-> "none"]
Returned(result) == [kind |-> "returned", result |-> result]
Thrown(message) == [kind |-> "thrown", message |-> message]

\* line 68: no response and no rejection yet
NoFetch == [settled |-> "none", status |-> 0]

\* a request handler or caller that is not running
Idle ==
    [pc |-> "idle", via |-> "", request |-> NoRequest, glbUrl |-> "", options |-> NoOptions,
     lookup |-> "", fetches |-> 0, fetched |-> NoFetch, decodes |-> 0,
     glbData |-> NotGlb, work |-> NoWork,
     outcome |-> NoOutcome, response |-> NoResponse]

\* line 93
maxDimensionOf(options) == OrDefault(options.maxDimension, AR_MAX_DIMENSION_METERS)

Settle_retryDownload(p, outcome) ==
    IF proc[p].pc = "downloading" /\ outcome.kind = "thrown" /\ proc[p].fetches < 3
    THEN [proc[p] EXCEPT !.fetches = @ + 1]
    ELSE [proc[p] EXCEPT
            !.pc = "done",
            !.outcome = outcome,
            !.response =
                IF proc[p].via # "GET" THEN NoResponse
                ELSE IF outcome.kind = "returned" THEN SuccessResponse(outcome.result)
                ELSE ErrorResponse(ErrorStatus(outcome.message))]

\* scaleGlbForAR has returned or thrown; the endpoint, when it is the
\* caller, builds its response (part_002 lines 113-147)
Settle(p, outcome) ==
    [proc[p] EXCEPT
        !.pc = "done",
        !.outcome = outcome,
        !.response =
            IF proc[p].via # "GET" THEN NoResponse
            ELSE IF outcome.kind = "returned" THEN SuccessResponse(outcome.result)
            ELSE ErrorResponse(ErrorStatus(outcome.message))]

\* lines 93-111: scaleGlbForAR up to its first await.  lookup records how
\* the cache check of lines 97-98 went: "hit", "expired" (an entry that is
\* not fresh) or "miss" (no entry)
EnterScaleGlbForAR(p, via, request, glbUrl, options) ==
    LET maxDimension == maxDimensionOf(options)
        cacheKey == getCacheKey(glbUrl, maxDimension)
        lookup == IF cacheKey \notin DOMAIN cache THEN "miss"
                  ELSE IF isFresh(cache[cacheKey], now) THEN "hit" ELSE "expired"
        entered == [Idle EXCEPT !.via = via, !.request = request, !.lookup = lookup,
                                !.glbUrl = glbUrl, !.options = options]
    IN IF lookup = "hit"
       THEN /\ proc' = [proc EXCEPT ![p] =
                  [entered EXCEPT
                      !.pc = "done",
                      !.outcome = Returned(cache[cacheKey].result),
                      !.response = IF via = "GET"
                                   THEN SuccessResponse(cache[cacheKey].result)
                                   ELSE NoResponse]]
            /\ UNCHANGED <<cache, writer>>
       ELSE /\ cache' = IF Cardinality(DOMAIN cache) > CLEANUP_THRESHOLD
                        THEN cleanupCache(cache, now) ELSE cache
            /\ writer' = Restrict(writer, DOMAIN cache')
            /\ proc' = [proc EXCEPT ![p] =
                  [entered EXCEPT !.pc = "downloading", !.fetches = 1]]

\* a direct call of the exported scaleGlbForAR(glbUrl, options)
CallScaleGlbForAR(p, glbUrl, options) ==
    /\ proc[p].pc = "idle"
    /\ EnterScaleGlbForAR(p, "direct", NoRequest, glbUrl, options)
    /\ UNCHANGED <<now, calcArgs, calcResult, trigger, proxy>>

\* GET /api/ar-glb: validation, then scaleGlbForAR(glbUrl, { maxDimension })
GET(p, request) ==
    /\ proc[p].pc = "idle"
    /\ LET v == Validate(request)
       IN IF v.status # 0
          THEN /\ proc' = [proc EXCEPT ![p] =
                     [Idle EXCEPT !.pc = "done", !.via = "GET", !.request = request,
                                  !.response = ErrorResponse(v.status)]]
               /\ UNCHANGED <<cache, writer>>
          ELSE EnterScaleGlbForAR(p, "GET", request, request.url[1],
                                  [NoOptions EXCEPT !.maxDimension = Some(v.maxDimension)])
    /\ UNCHANGED <<now, calcArgs, calcResult, trigger, proxy>>

\* lines 67-80 and 111: downloadGlb settles
DownloadSettles(p) ==
    /\ proc[p].pc = "downloading"
    /\ \E o \in FetchOutcomes :
          proc' = [proc EXCEPT ![p] =
              IF o.settled = "rejected"
              THEN [Settle(p, Thrown(FetchRejectedMessage)) EXCEPT !.fetched = o]
              ELSE IF ~ResponseOk(o.status)
                   THEN [Settle(p, Thrown(DownloadFailedMessage(o.status)))
                            EXCEPT !.fetched = o]
              ELSE [proc[p] EXCEPT !.pc = "decoding", !.decodes = 1, !.fetched = o,
                                   !.glbData = Serves(proc[p].glbUrl)]]
    /\ UNCHANGED <<cache, writer, now, calcArgs, calcResult, trigger, proxy>>

\* lines 117-178: readBinary settles; scene, bounds, decision, scaling of
\* the root nodes, up to the call of writeBinary
DecodeSettles(p) ==
    /\ proc[p].pc = "decoding"
    /\ proc' = [proc EXCEPT ![p] =
          IF ~CanReadBinary(proc[p].glbData) THEN Settle(p, Thrown(InvalidGlbMessage))
          ELSE IF SelectScene(ReadBinary(proc[p].glbData)) = 0
               THEN Settle(p, Thrown(NoSceneMessage))
          ELSE [proc[p] EXCEPT
                   !.pc = "writing",
                   !.work = ProcessDocument(ReadBinary(proc[p].glbData), proc[p].options,
                                            maxDimensionOf(proc[p].options))]]
    /\ UNCHANGED <<cache, writer, now, calcArgs, calcResult, trigger, proxy>>

\* lines 178-186: the result built from what the pipeline worked out
ScalingResultOf(work) ==
    [glbData |-> WriteBinary(work.document),
     scaleFactor |-> work.scaleFactor,
     wasScaled |-> work.wasScaled,
     originalDimensions |-> work.originalDimensions,
     scaledDimensions |-> work.scaledDimensions]

\* lines 189-193: the entry stored for a result at time dateNow
CacheEntryOf(result, dateNow) ==
    [data |-> result.glbData, timestamp |-> dateNow, result |-> result]

\* lines 178-195: writeBinary settles; the result is stored and returned
WriteSettles(p) ==
    /\ proc[p].pc = "writing"
    /\ LET result == ScalingResultOf(proc[p].work)
           cacheKey == getCacheKey(proc[p].glbUrl, maxDimensionOf(proc[p].options))
       IN /\ cache' = MapSet(cache, cacheKey, CacheEntryOf(result, now))
          /\ writer' = MapSet(writer, cacheKey,
                         [glbUrl |-> proc[p].glbUrl,
                          maxDimension |-> maxDimensionOf(proc[p].options)])
          /\ proc' = [proc EXCEPT ![p] = Settle(p, Returned(result))]
    /\ UNCHANGED <<now, calcArgs, calcResult, trigger, proxy>>

\* the caller has its answer; the handler can serve the next request
Release(p) ==
    /\ proc[p].pc = "done"
    /\ proc' = [proc EXCEPT ![p] = Idle]
    /\ UNCHANGED <<cache, writer, now, calcArgs, calcResult, trigger, proxy>>

\* Date.now() moves on
Tick ==
    /\ now + ClockStep <= MaxClockSteps * ClockStep
    /\ now' = now + ClockStep
    /\ UNCHANGED <<cache, writer, proc, calcArgs, calcResult, trigger, proxy>>

\* lines 211-213
clearCache ==
    /\ DOMAIN cache # {}
    /\ cache' = EmptyMap
    /\ writer' = EmptyMap
    /\ UNCHANGED <<proc, now, calcArgs, calcResult, trigger, proxy>>

(***************************************************************************)
(* The AR trigger of the record page (src/lib/components/ui/ARButton.svelte *)
(* and ARPopover.svelte)                                                   *)
(***************************************************************************)

Components == {"ARButton", "ARPopover"}

DeviceTypes == {"ios", "android", "desktop"}

UrlUsdz == "https://zenodo.org/a.usdz"

\* a URL handed to a viewer: the asset itself, or the scaling endpoint of
\* this origin with the asset's URL as its url parameter
AssetUrl(originalUrl) == [pathname |-> "", url |-> originalUrl]
ApiUrl(originalUrl) == [pathname |-> "/api/ar-glb", url |-> originalUrl]

\* ARButton 25-27, ARPopover 27-29: null without dimensions
arScalingOf(modelDimensions) ==
    IF modelDimensions = Undefined THEN Undefined
    ELSE Some(calculateARScaling(modelDimensions[1], Undefined))

\* arScaling?.isScaled as a condition
isScaledOf(arScaling) == arScaling # Undefined /\ arScaling[1].isScaled

getScaledGlbUrl_always(arScaling, originalUrl) == ApiUrl(originalUrl)

\* ARButton 34-45, ARPopover 79-86
getScaledGlbUrl(arScaling, originalUrl) ==
    IF ~isScaledOf(arScaling) THEN AssetUrl(originalUrl) ELSE ApiUrl(originalUrl)

\* ARButton 87-97, ARPopover 98-106: the intent handed to the browser
openAndroidSceneViewer(arScaling, url) ==
    [viewer |-> "scene-viewer", file |-> url,
     resizable |-> IF isScaledOf(arScaling) THEN "false" ELSE "true"]

QuickLook(usdzUrl) ==
    [viewer |-> "quick-look", file |-> AssetUrl(OrDefault(usdzUrl, "")), resizable |-> ""]

NothingOpened == [viewer |-> "", file |-> AssetUrl(""), resizable |-> ""]

\* the hidden rel="ar" anchor: ARButton renders it inside {#if showButton}
\* (111-121), ARPopover whenever the device is iOS (125-134)
arLinkBound(props) ==
    /\ props.deviceType = "ios"
    /\ props.component = "ARButton" => props.usdzUrl # Undefined

\* ARButton 69-85, ARPopover 88-96
handleARClick(props) ==
    LET arScaling == arScalingOf(props.modelDimensions)
    IN IF /\ props.deviceType = "ios" /\ arLinkBound(props)
          /\ props.component = "ARPopover" => props.usdzUrl # Undefined
       THEN QuickLook(props.usdzUrl)
       ELSE IF props.deviceType = "android" /\ props.glbUrl # Undefined
       THEN openAndroidSceneViewer(arScaling, getScaledGlbUrl(arScaling, props.glbUrl[1]))
       ELSE NothingOpened

NoProps ==
    [component |-> "", deviceType |-> "", glbUrl |-> Undefined, usdzUrl |-> Undefined,
     modelDimensions |-> Undefined]

NoTrigger == [pc |-> "unmounted", props |-> NoProps, opened |-> NothingOpened]

\* the user activates the AR trigger
ClickAR ==
    /\ trigger.pc = "mounted"
    /\ trigger' = [trigger EXCEPT !.pc = "clicked", !.opened = handleARClick(trigger.props)]
    /\ UNCHANGED <<calcArgs, calcResult, cache, writer, now, proc, proxy>>

(***************************************************************************)
(* fetchThroughProxy (src/unnamed/part_005, lines 69-101)                  *)
(***************************************************************************)

\* largest retries argument of the model
MaxRetries == 3

DEFAULT_RETRIES == 3

\* how a fetch of the proxy URL can end
ProxyFetchOutcomes ==
    {[settled |-> "rejected", status |-> 0],
     [settled |-> "response", status |-> 404],
     [settled |-> "response", status |-> 500],
     [settled |-> "response", status |-> 503],
     [settled |-> "response", status |-> 200]}

\* lines 84 and 95: Math.min(1000 * Math.pow(2, attempt), 5000)
BackoffDelay(attempt) == IF 1000 * 2 ^ attempt < 5000 THEN 1000 * 2 ^ attempt ELSE 5000

ProxyFetchFailedMessage(status) == <<"Failed to fetch: ", ToString(status)>>
ProxyRejectedMessage == <<"fetch failed">>
ProxyExhaustedMessage == <<"Failed to fetch after retries">>

ProxyIdle ==
    [pc |-> "idle", retries |-> 0, attempt |-> 0, delay |-> 0, fetched |-> <<>>,
     outcome |-> NoOutcome]

\* lines 75 and 98-100: the loop test, and the throw behind the loop
ProxyLoop(call, attempt) ==
    IF attempt < call.retries
    THEN [call EXCEPT !.pc = "fetching", !.attempt = attempt, !.delay = 0]
    ELSE [call EXCEPT !.pc = "done", !.attempt = attempt, !.delay = 0,
                      !.outcome = Thrown(ProxyExhaustedMessage)]

\* lines 90-97: the catch clause, for whatever was thrown inside the try
ProxyCatch(call, message) ==
    IF call.attempt = call.retries - 1
    THEN [call EXCEPT !.pc = "done", !.outcome = Thrown(message)]
    ELSE [call EXCEPT !.pc = "waiting", !.delay = BackoffDelay(call.attempt)]

\* lines 72-75
CallFetchThroughProxy(retriesArg) ==
    /\ proxy.pc = "idle"
    /\ proxy' = ProxyLoop([ProxyIdle EXCEPT !.retries = OrDefault(retriesArg, DEFAULT_RETRIES)], 0)
    /\ UNCHANGED <<calcArgs, calcResult, cache, writer, now, proc, trigger>>

\* lines 77-97: the fetch of this attempt settles
ProxyFetchSettles ==
    /\ proxy.pc = "fetching"
    /\ \E o \in ProxyFetchOutcomes :
          LET call == [proxy EXCEPT !.fetched = Append(@, o)]
          IN proxy' =
                IF o.settled = "rejected" THEN ProxyCatch(call, ProxyRejectedMessage)
                ELSE IF ResponseOk(o.status)
                     THEN [call EXCEPT !.pc = "done", !.outcome = Returned(o)]
                ELSE IF call.attempt < call.retries - 1 /\ o.status >= 500
                     THEN [call EXCEPT !.pc = "waiting", !.delay = BackoffDelay(call.attempt)]
                ELSE ProxyCatch(call, ProxyFetchFailedMessage(o.status))
    /\ UNCHANGED <<calcArgs, calcResult, cache, writer, now, proc, trigger>>

\* lines 85-86 and 96-97: the timer fires; attempt++ and the loop test
BackoffElapses ==
    /\ proxy.pc = "waiting"
    /\ proxy' = ProxyLoop(proxy, proxy.attempt + 1)
    /\ UNCHANGED <<calcArgs, calcResult, cache, writer, now, proc, trigger>>

(***************************************************************************)
(* Specification of the calculator: every input of the bounded domain,     *)
(* then the call.                                                          *)
(***************************************************************************)

NoResult == [none |-> TRUE]

Dimensions == [width : DimValues, height : DimValues, depth : DimValues]

CalcInputs == [dimensions : Dimensions, maxDimension : {Some(m) : m \in 1..MaxLimit} \cup {Undefined}]

vars == <<calcArgs, calcResult, cache, writer, now, proc, trigger, proxy>>

ServerInit ==
    /\ trigger = NoTrigger
    /\ proxy = ProxyIdle
    /\ cache = EmptyMap
    /\ writer = EmptyMap
    /\ now = 0
    /\ proc = [p \in Procs |-> Idle]

InitCalc ==
    /\ calcArgs \in CalcInputs
    /\ calcResult = NoResult
    /\ ServerInit

CallCalculateARScaling ==
    /\ calcResult = NoResult
    /\ calcResult' = calculateARScaling(calcArgs.dimensions, calcArgs.maxDimension)
    /\ UNCHANGED <<calcArgs, cache, writer, now, proc, trigger, proxy>>

NextCalc == CallCalculateARScaling

SpecCalc == InitCalc /\ [][NextCalc]_vars

(***************************************************************************)
(* Specification of the server: concurrent direct calls of scaleGlbForAR   *)
(***************************************************************************)

\* the asset requested in direct calls
ServiceUrls == {UrlFigurine}

\* maximum dimensions requested in direct calls: absent, or 1..MaxRequested
MaxRequested == 1

DirectOptions ==
    {[NoOptions EXCEPT !.maxDimension = m] :
        m \in {Undefined} \cup {Some(n) : n \in 1..MaxRequested}}

Init ==
    /\ calcArgs = [dimensions |-> Dim(0, 0, 0), maxDimension |-> Undefined]
    /\ calcResult = NoResult
    /\ ServerInit

Next ==
    \/ \E p \in Procs, glbUrl \in ServiceUrls, options \in DirectOptions :
          CallScaleGlbForAR(p, glbUrl, options)
    \/ \E p \in Procs : DownloadSettles(p)
    \/ \E p \in Procs : DecodeSettles(p)
    \/ \E p \in Procs : WriteSettles(p)
    \/ \E p \in Procs : Release(p)
    \/ Tick
    \/ clearCache

Spec == Init /\ [][Next]_vars

(***************************************************************************)
(* Specification of the endpoint: one handler serving GET requests         *)
(***************************************************************************)

Handler == "r1"

UrlParams ==
    {Undefined, Some(""), Some(UrlRelative), Some(UrlOtherHost), Some(UrlGltf),
     Some(UrlFigurine), Some(UrlSceneLess), Some(UrlNotGlb)}

MaxDimensionParams ==
    {Undefined, Some(<<>>), Some(<<"a", "b", "c">>), Some(<<"0">>), Some(<<"-", "1">>),
     Some(<<"1", "5", "0">>), Some(<<"1", "0", "1">>), Some(<<"1", "0", "0">>),
     Some(<<"1">>), Some(<<"2", "a", "b", "c">>)}

Requests == [url : UrlParams, maxDimension : MaxDimensionParams]

NextApi ==
    \/ \E request \in Requests : GET(Handler, request)
    \/ DownloadSettles(Handler)
    \/ DecodeSettles(Handler)
    \/ WriteSettles(Handler)
    \/ Release(Handler)
    \/ Tick

SpecApi == Init /\ [][NextApi]_vars

(***************************************************************************)
(* Claims about calculateARScaling (checked under SpecCalc)                *)
(***************************************************************************)

Called == calcResult # NoResult

ArgDims == calcArgs.dimensions
ArgMax == OrDefault(calcArgs.maxDimension, AR_MAX_DIMENSION_METERS)
ArgLargest ==
    CHOOSE v \in {ArgDims[a] : a \in Axes} : \A a \in Axes : ArgDims[a] <= v

\* the largest of the three scaled dimensions is the number q
LargestScaledIs(q) ==
    /\ \E a \in Axes : calcResult.scaledDimensions[a] = q
    /\ \A a \in Axes : NumLeq(calcResult.scaledDimensions[a], q)

\* C1: when the largest dimension is at most maxDimension (equality
\* included) the result has scaleFactor 1.0, isScaled false and scaled
\* dimensions equal to the original dimensions on every axis.
C1_WithinLimitUnscaled ==
    (Called /\ ArgLargest <= ArgMax) =>
        /\ calcResult.scaleFactor = Num(1)
        /\ calcResult.isScaled = FALSE
        /\ calcResult.originalDimensions = ArgDims
        /\ \A a \in Axes : calcResult.scaledDimensions[a] = Num(ArgDims[a])

C1_Witness == Called /\ ArgLargest = ArgMax /\ calcArgs.maxDimension # Undefined

\* C2 as stated: when the largest dimension exceeds maxDimension the result
\* has isScaled true, scaleFactor = maxDimension / largestDimension, every
\* scaled axis = original axis * scaleFactor, and the largest scaled
\* dimension is exactly maxDimension.
C2_ScaledExactlyToLimit ==
    (Called /\ ArgLargest > ArgMax) =>
        /\ calcResult.isScaled = TRUE
        /\ calcResult.scaleFactor = FDiv(ArgMax, ArgLargest)
        /\ \A a \in Axes :
              calcResult.scaledDimensions[a] = FMulNat(ArgDims[a], calcResult.scaleFactor)
        /\ LargestScaledIs(Num(ArgMax))

\* C2 amended: as C2, with the largest scaled dimension equal to
\* maxDimension up to one unit in the last place of the binary64 product
\* (maxDimension itself or one of its two neighbouring numbers).
C2_ScaledToLimitWithinUlp ==
    (Called /\ ArgLargest > ArgMax) =>
        /\ calcResult.isScaled = TRUE
        /\ calcResult.scaleFactor = FDiv(ArgMax, ArgLargest)
        /\ \A a \in Axes :
              calcResult.scaledDimensions[a] = FMulNat(ArgDims[a], calcResult.scaleFactor)
        /\ \/ LargestScaledIs(Num(ArgMax))
           \/ LargestScaledIs(NextDown(Num(ArgMax)))
           \/ LargestScaledIs(NextUp(Num(ArgMax)))
        /\ (ArgDims = [width |-> 50, height |-> 30, depth |-> 20] /\ ArgMax = 2) =>
              /\ calcResult.scaleFactor = FDiv(4, 100)
              /\ calcResult.scaledDimensions =
                    [width |-> Num(2), height |-> FDiv(12, 10), depth |-> FDiv(8, 10)]

\* the largest scaled dimension misses maxDimension by one unit in the last
\* place: 49 * (1 / 49) is the number just below 1
C2_Witness ==
    /\ Called
    /\ ArgDims = [width |-> 49, height |-> 30, depth |-> 20]
    /\ ArgMax = 1
    /\ calcResult.isScaled = TRUE
    /\ LargestScaledIs(NextDown(Num(1)))

\* C3: largestAxis is 'height' when height >= width and height >= depth,
\* otherwise 'depth' when depth >= width and depth >= height, otherwise
\* 'width'; {5,5,3} gives height, {5,3,5} depth, {5,3,3} width, a
\* three-way tie height.
C3_LargestAxisChain ==
    Called =>
        /\ (ArgDims.height >= ArgDims.width /\ ArgDims.height >= ArgDims.depth)
              => calcResult.largestAxis = "height"
        /\ (~(ArgDims.height >= ArgDims.width /\ ArgDims.height >= ArgDims.depth)
              /\ ArgDims.depth >= ArgDims.width /\ ArgDims.depth >= ArgDims.height)
              => calcResult.largestAxis = "depth"
        /\ (ArgDims.width > ArgDims.height /\ ArgDims.width > ArgDims.depth)
              => calcResult.largestAxis = "width"
        /\ calcResult.largestAxis \in Axes
        /\ ArgDims = [width |-> 5, height |-> 5, depth |-> 3] => calcResult.largestAxis = "height"
        /\ ArgDims = [width |-> 5, height |-> 3, depth |-> 5] => calcResult.largestAxis = "depth"
        /\ ArgDims = [width |-> 5, height |-> 3, depth |-> 3] => calcResult.largestAxis = "width"
        /\ (ArgDims.width = ArgDims.height /\ ArgDims.height = ArgDims.depth)
              => calcResult.largestAxis = "height"

C3_Witness ==
    /\ Called
    /\ ArgDims = [width |-> 5, height |-> 3, depth |-> 5]
    /\ calcResult.largestAxis = "depth"

\* position of an axis in an order of precedence (a sequence of the axes)
Rank(order, a) == CHOOSE i \in 1..Len(order) : order[i] = a

\* largestAxis attains the maximum and no axis before it in the order does
TieBrokenBy(order) ==
    /\ ArgDims[calcResult.largestAxis] = calcResult.largestDimension
    /\ calcResult.largestDimension = ArgLargest
    /\ \A a \in Axes :
          Rank(order, a) < Rank(order, calcResult.largestAxis) => ArgDims[a] < ArgLargest

\* C4 as stated: largestAxis attains largestDimension, and on a tie the
\* axis earlier in the order width, height, depth is reported.
C4_TieWidthHeightDepth == Called => TieBrokenBy(<<"width", "height", "depth">>)

\* C4 amended: largestAxis attains largestDimension, and on a tie the axis
\* earlier in the order height, depth, width is reported.
C4_TieHeightDepthWidth == Called => TieBrokenBy(<<"height", "depth", "width">>)

C4_Witness ==
    /\ Called
    /\ ArgDims = [width |-> 5, height |-> 5, depth |-> 3]
    /\ calcResult.largestAxis = "height"

\* C5: for dimensions 0 x 0 x 0 and any positive maxDimension the result has
\* scaleFactor 1.0, isScaled false, and holds no NaN and no infinite value.
C5_ZeroDimensions ==
    (Called /\ ArgDims = [width |-> 0, height |-> 0, depth |-> 0]) =>
        /\ calcResult.scaleFactor = Num(1)
        /\ calcResult.isScaled = FALSE
        /\ \A a \in Axes : IsFiniteNum(calcResult.scaledDimensions[a])
        /\ calcResult.largestDimension = 0

C5_Witness ==
    /\ Called
    /\ ArgDims = [width |-> 0, height |-> 0, depth |-> 0]
    /\ ArgMax = MaxLimit
    /\ calcResult.scaledDimensions.width = Zero


(***************************************************************************)
(* Specification of the scaling options: direct calls of scaleGlbForAR     *)
(* for one asset with every combination of maxDimension, forceScale and    *)
(* customScaleFactor, and clearCache                                       *)
(***************************************************************************)

\* maximum dimensions below, at (the default) and above the figurine's 2 m
OptionDimensions == {Undefined, Some(1), Some(3)}

\* custom factors: 1.0, 0.5 and 3.0
CustomFactors == {Undefined, Some(Num(1)), Some(FDiv(1, 2)), Some(Num(3))}

ScalingOptions ==
    [maxDimension : OptionDimensions, forceScale : BOOLEAN, customScaleFactor : CustomFactors]

NextOptions ==
    \/ \E options \in ScalingOptions : CallScaleGlbForAR(Handler, UrlFigurine, options)
    \/ DownloadSettles(Handler)
    \/ DecodeSettles(Handler)
    \/ WriteSettles(Handler)
    \/ Release(Handler)
    \/ clearCache

SpecOptions == Init /\ [][NextOptions]_vars

(***************************************************************************)
(* Specification of concurrent requests: two callers of scaleGlbForAR      *)
(* interleaved at the awaits, the cache never cleared                      *)
(***************************************************************************)

NextRace ==
    \/ \E p \in Procs, options \in DirectOptions : CallScaleGlbForAR(p, UrlFigurine, options)
    \/ \E p \in Procs : DownloadSettles(p)
    \/ \E p \in Procs : DecodeSettles(p)
    \/ \E p \in Procs : WriteSettles(p)
    \/ \E p \in Procs : Release(p)
    \/ Tick

SpecRace == Init /\ [][NextRace]_vars

(***************************************************************************)
(* Specification of the assets: direct calls of scaleGlbForAR by one       *)
(* caller for assets of every shape (several scenes, a default scene that  *)
(* is not the first, nested nodes, a model of size zero, a scene without   *)
(* geometry, no scene at all), with and without forceScale and a custom    *)
(* factor                                                                  *)
(***************************************************************************)

AssetUrls == {UrlBuilding, UrlFigurine, UrlPoint, UrlEmptyScene, UrlSceneLess}

AssetOptions ==
    [maxDimension : {Undefined}, forceScale : BOOLEAN,
     customScaleFactor : {Undefined, Some(FDiv(1, 2))}]

NextAssets ==
    \/ \E glbUrl \in AssetUrls, options \in AssetOptions :
          CallScaleGlbForAR(Handler, glbUrl, options)
    \/ DownloadSettles(Handler)
    \/ DecodeSettles(Handler)
    \/ WriteSettles(Handler)
    \/ Release(Handler)
    \/ clearCache

SpecAssets == Init /\ [][NextAssets]_vars

(***************************************************************************)
(* Specification of the sweep: the server after CLEANUP_THRESHOLD calls    *)
(* for the figurine, one per maximum dimension above MaxLimit, all stored  *)
(* at time 0; then calls for further maximum dimensions                    *)
(***************************************************************************)

StoredDimensions == (MaxLimit + 1)..(MaxLimit + CLEANUP_THRESHOLD)

\* the entry a successful call for (glbUrl, options) stores at time dateNow
StoredEntry(glbUrl, options, dateNow) ==
    CHOOSE entry \in
        {CacheEntryOf(result, dateNow) :
            result \in {ScalingResultOf(work) :
                work \in {ProcessDocument(ReadBinary(Serves(glbUrl)), options,
                                          maxDimensionOf(options))}}} : TRUE

\* the dimension whose call stored the entry under key k
StoredDimensionOf(k) == CHOOSE m \in StoredDimensions : getCacheKey(UrlFigurine, m) = k

InitSweep ==
    /\ trigger = NoTrigger
    /\ proxy = ProxyIdle
    /\ calcArgs = [dimensions |-> Dim(0, 0, 0), maxDimension |-> Undefined]
    /\ calcResult = NoResult
    /\ now = 0
    /\ proc = [p \in Procs |-> Idle]
    /\ cache = [k \in {getCacheKey(UrlFigurine, m) : m \in StoredDimensions} |->
                  StoredEntry(UrlFigurine,
                              [NoOptions EXCEPT !.maxDimension = Some(StoredDimensionOf(k))], 0)]
    /\ writer = [k \in {getCacheKey(UrlFigurine, m) : m \in StoredDimensions} |->
                  [glbUrl |-> UrlFigurine, maxDimension |-> StoredDimensionOf(k)]]

SweepOptions == {[NoOptions EXCEPT !.maxDimension = m] : m \in OptionDimensions}

NextSweep ==
    \/ \E options \in SweepOptions : CallScaleGlbForAR(Handler, UrlFigurine, options)
    \/ DownloadSettles(Handler)
    \/ DecodeSettles(Handler)
    \/ WriteSettles(Handler)
    \/ Release(Handler)
    \/ Tick

SpecSweep == InitSweep /\ [][NextSweep]_vars

(***************************************************************************)
(* Specification of the AR trigger: every combination of component,        *)
(* device, URLs and dimensions, then the click                             *)
(***************************************************************************)

\* dimensions known to the record page: within, at and over the 2 m limit
TriggerDimensions == {d \in Dimensions : \A a \in Axes : d[a] \in {0, 2, 3}}

TriggerProps ==
    [component : Components, deviceType : DeviceTypes,
     glbUrl : {Undefined, Some(UrlBuilding)}, usdzUrl : {Undefined, Some(UrlUsdz)},
     modelDimensions : {Undefined} \cup {Some(d) : d \in TriggerDimensions}]

InitTrigger ==
    /\ trigger \in [pc : {"mounted"}, props : TriggerProps, opened : {NothingOpened}]
    /\ proxy = ProxyIdle
    /\ calcArgs = [dimensions |-> Dim(0, 0, 0), maxDimension |-> Undefined]
    /\ calcResult = NoResult
    /\ cache = EmptyMap
    /\ writer = EmptyMap
    /\ now = 0
    /\ proc = [p \in Procs |-> Idle]

NextTrigger == ClickAR

SpecTrigger == InitTrigger /\ [][NextTrigger]_vars

(***************************************************************************)
(* Specification of fetchThroughProxy: one call, every outcome of every    *)
(* attempt                                                                 *)
(***************************************************************************)

NextProxy ==
    \/ \E retriesArg \in {Undefined} \cup {Some(n) : n \in 0..MaxRetries} :
          CallFetchThroughProxy(retriesArg)
    \/ ProxyFetchSettles
    \/ BackoffElapses

SpecProxy == Init /\ [][NextProxy]_vars

(***************************************************************************)
(* Claims about the scaling service (Spec) and the endpoint (SpecApi)      *)
(***************************************************************************)

\* the cache key of the call that handler record r is running
CallKey(r) == getCacheKey(r.glbUrl, maxDimensionOf(r.options))

\* the step is the start of a call of scaleGlbForAR by p
Starts(p) == proc[p].pc = "idle" /\ proc'[p].pc # "idle" /\ proc'[p].via # ""

\* the age of the entry stored under key k
Age(k) == now - cache[k].timestamp

C6_HitStep ==
    \A p \in Procs :
        Starts(p) /\ proc'[p].via = "direct" =>
            LET k == CallKey(proc'[p])
            IN k \in DOMAIN cache /\ Age(k) < CACHE_TTL_MS =>
                  /\ proc'[p].pc = "done"
                  /\ proc'[p].outcome = Returned(cache[k].result)
                  /\ proc'[p].fetches = 0
                  /\ proc'[p].decodes = 0
                  /\ cache' = cache

C6_StoredOnSuccess ==
    \A p \in Procs :
        proc[p].pc = "writing" /\ proc'[p].pc = "done" =>
            LET k == CallKey(proc[p])
            IN /\ k \in DOMAIN cache'
               /\ cache'[k].timestamp = now
               /\ proc'[p].outcome = Returned(cache'[k].result)

C6_KeptWhileFresh ==
    \A k \in DOMAIN cache :
        now' - cache[k].timestamp < CACHE_TTL_MS =>
            \/ cache' = EmptyMap
            \/ k \in DOMAIN cache' /\ cache'[k].timestamp >= cache[k].timestamp

\* C6: a successful call stores its result with the time of the store; the
\* entry stays until the cache is cleared; and every call for the same URL
\* and maximum dimension that starts less than CACHE_TTL_MS after the store
\* returns the stored result without a fetch, without a decode and without
\* touching the cache.
C6_HitWithinTtl == [][C6_HitStep /\ C6_StoredOnSuccess /\ C6_KeptWhileFresh]_vars

\* C6 witness: a call has returned a result stored at an earlier time, with
\* no fetch and no decode
C6_Witness ==
    \E p \in Procs :
        /\ proc[p].pc = "done"
        /\ proc[p].lookup = "hit"
        /\ proc[p].fetches = 0 /\ proc[p].decodes = 0
        /\ CallKey(proc[p]) \in DOMAIN cache
        /\ proc[p].outcome = Returned(cache[CallKey(proc[p])].result)
        /\ 0 < Age(CallKey(proc[p])) /\ Age(CallKey(proc[p])) < CACHE_TTL_MS

KeyUrls == {UrlBuilding, UrlFigurine, UrlRepacked, UrlSceneLess, UrlNotGlb, UrlOtherHost, UrlGltf}

KeyDimensions == {1, 2, 12, 21, 100}

C7_KeyInjective ==
    \A u1 \in KeyUrls, u2 \in KeyUrls, m1 \in KeyDimensions, m2 \in KeyDimensions :
        getCacheKey(u1, m1) = getCacheKey(u2, m2) => u1 = u2 /\ m1 = m2

\* writer[k] is the (url, maxDimension) of the call that stored entry k
C7_StatsReportEveryPair ==
    /\ DOMAIN writer = DOMAIN cache
    /\ getCacheStats(cache).size = Cardinality({writer[k] : k \in DOMAIN writer})
    /\ \A k \in DOMAIN writer : k \in getCacheStats(cache).keys

C7_OwnEntryOnly ==
    /\ \A p \in Procs :
          Starts(p) /\ proc'[p].pc = "done" =>
              \E k \in DOMAIN cache :
                  /\ writer[k] = [glbUrl |-> proc'[p].glbUrl,
                                  maxDimension |-> maxDimensionOf(proc'[p].options)]
                  /\ proc'[p].outcome = Returned(cache[k].result)
    /\ \A k \in DOMAIN cache \cap DOMAIN cache' :
          cache'[k] # cache[k] => writer'[k] = writer[k]
    /\ \A p \in Procs :
          proc[p].pc = "writing" /\ proc'[p].pc = "done" =>
              \A k \in DOMAIN cache :
                  writer[k].maxDimension # maxDimensionOf(proc[p].options) =>
                      k \in DOMAIN cache' /\ cache'[k] = cache[k]

\* C7: calls for one URL with different maximum dimensions have different
\* cache keys (the key is injective in the pair); a call is only ever served
\* from an entry stored by a call for its own pair; storing the result for
\* one maximum dimension leaves the entries of the others as they were; and
\* getCacheStats reports one key per stored pair.
C7_EntryPerMaxDimension ==
    [](C7_KeyInjective /\ C7_StatsReportEveryPair) /\ [][C7_OwnEntryOnly]_vars

\* C7 witness: the cache holds the results of one URL for two maximum
\* dimensions, one scaled and one not, and the statistics report both keys
C7_Witness ==
    LET k1 == getCacheKey(UrlFigurine, 1)
        k2 == getCacheKey(UrlFigurine, 2)
    IN /\ getCacheStats(cache).size = 2
       /\ getCacheStats(cache).keys = {k1, k2}
       /\ cache[k1].result.wasScaled
       /\ ~cache[k2].result.wasScaled

C8_ExpiredStep ==
    \A p \in Procs :
        Starts(p) /\ proc'[p].via = "direct" =>
            LET k == CallKey(proc'[p])
            IN k \in DOMAIN cache /\ Age(k) >= CACHE_TTL_MS =>
                  /\ proc'[p].pc = "downloading"
                  /\ proc'[p].fetches = 1
                  /\ proc'[p].outcome = NoOutcome

C8_Replaced ==
    \A p \in Procs :
        proc[p].pc = "writing" /\ proc'[p].pc = "done" =>
            LET k == CallKey(proc[p])
            IN /\ proc[p].fetches = 1 /\ proc[p].decodes = 1
               /\ k \in DOMAIN cache'
               /\ cache'[k].timestamp = now'
               /\ now' - cache'[k].timestamp < CACHE_TTL_MS
               /\ cache'[k].result = proc'[p].outcome.result

\* C8: a call that finds an entry whose age is CACHE_TTL_MS or more is not
\* answered from it: it downloads again; a call that gets through the
\* pipeline has fetched and decoded once and replaces the entry by one stamped
\* with the time of the store, which is fresh again.
C8_ExpiredIsMiss == [][C8_ExpiredStep /\ C8_Replaced]_vars

\* C8 witness: one call found the entry expired and ran the pipeline; the
\* entry it stored at or after the expiry then answered another call
C8_Witness ==
    \E p \in Procs, q \in Procs :
        /\ proc[p].pc = "done" /\ proc[p].lookup = "expired"
        /\ proc[p].fetches = 1 /\ proc[p].decodes = 1
        /\ proc[p].outcome.kind = "returned"
        /\ proc[q].pc = "done" /\ proc[q].lookup = "hit"
        /\ CallKey(proc[q]) = CallKey(proc[p])
        /\ CallKey(proc[p]) \in DOMAIN cache
        /\ cache[CallKey(proc[p])].timestamp >= CACHE_TTL_MS
        /\ proc[q].outcome = Returned(cache[CallKey(proc[p])].result)

\* C9 (as stated in the specification; the code does not do this): when a
\* call that ran the pipeline returns wasScaled = false, the payload it
\* returns and the payload it stored are the bytes it downloaded.
C9_UnscaledReturnsDownload ==
    \A p \in Procs :
        /\ proc[p].pc = "done"
        /\ proc[p].fetches = 1
        /\ proc[p].outcome.kind = "returned"
        /\ ~proc[p].outcome.result.wasScaled
        => /\ proc[p].outcome.result.glbData = proc[p].glbData
           /\ CallKey(proc[p]) \in DOMAIN cache =>
                 cache[CallKey(proc[p])].data = proc[p].glbData

\* the request is one the endpoint has to refuse: url absent or empty, url
\* not an absolute URL, path not ending in .glb whatever the case, or a
\* numeric maxDimension outside (0, 100]
InvalidRequest(request) ==
    \/ request.url = Undefined
    \/ request.url = Some("")
    \/ ~ParseURL(request.url[1]).ok
    \/ ~EndsWith(ToLowerCase(ParseURL(request.url[1]).pathname), <<".", "g", "l", "b">>)
    \/ /\ request.maxDimension # Undefined
       /\ ~ParseFloat(request.maxDimension[1]).nan
       /\ \/ ParseFloat(request.maxDimension[1]).value <= 0
          \/ ParseFloat(request.maxDimension[1]).value > 100

C10_Refused ==
    proc[Handler].via = "GET" /\ InvalidRequest(proc[Handler].request) =>
        /\ proc[Handler].pc = "done"
        /\ proc[Handler].response.status \in 400..499
        /\ proc[Handler].response.body = NoBody
        /\ proc[Handler].outcome = NoOutcome
        /\ proc[Handler].lookup = ""
        /\ proc[Handler].fetches = 0 /\ proc[Handler].decodes = 0

C10_CacheUntouched ==
    proc[Handler].pc = "idle" /\ proc'[Handler].via = "GET"
        /\ InvalidRequest(proc'[Handler].request) => cache' = cache

\* C10: a GET whose url is absent, empty or not an absolute URL, whose path
\* does not end in .glb, or whose numeric maxDimension lies outside (0, 100]
\* is answered with a 4xx status and no body, scaleGlbForAR is not invoked
\* (no cache lookup, no fetch, no decode), and the cache is left as it was.
C10_InvalidRequestRefused == []C10_Refused /\ [][C10_CacheUntouched]_vars

\* C10 witness: a request for a servable asset with maxDimension=150 has been
\* answered 400 while the cache holds an entry
C10_Witness ==
    /\ proc[Handler].pc = "done"
    /\ proc[Handler].request = [url |-> Some(UrlFigurine), maxDimension |-> Some(<<"1", "5", "0">>)]
    /\ proc[Handler].response.status = 400
    /\ proc[Handler].fetches = 0
    /\ DOMAIN cache # {}


\* the url parameter passes the endpoint's checks of lines 77-101
UrlAccepted(request) ==
    /\ request.url # Undefined /\ request.url # Some("")
    /\ ParseURL(request.url[1]).ok
    /\ isAllowedHost(ParseURL(request.url[1]).hostname)
    /\ EndsWith(ToLowerCase(ParseURL(request.url[1]).pathname), <<".", "g", "l", "b">>)

\* the text is a number: an optional sign and digits, nothing else
IsNumeric(s) ==
    LET body == IF s # <<>> /\ s[1] = "-" THEN Tail(s) ELSE s
    IN body # <<>> /\ \A i \in 1..Len(body) : IsDigit(body[i])

\* the request has reached scaleGlbForAR with maximum dimension m
InvokedWith(m) ==
    /\ proc[Handler].lookup # ""
    /\ proc[Handler].options.maxDimension = Some(m)

\* the request was refused by the validation
Refused ==
    /\ proc[Handler].pc = "done"
    /\ proc[Handler].lookup = ""
    /\ proc[Handler].response.status = 400

\* C11 (as stated in the specification; the code does not do this): for a
\* request whose url is accepted, an absent maxDimension gives the default
\* 2, a numeric one in (0, 100] is used unchanged, and every maxDimension
\* that is present but not a number, or a number <= 0 or > 100, is refused:
\* the default is used only when the parameter is absent.
C11_MaxDimensionUsedOrRefused ==
    proc[Handler].via = "GET" /\ UrlAccepted(proc[Handler].request) =>
        LET param == proc[Handler].request.maxDimension
        IN IF param = Undefined THEN InvokedWith(AR_MAX_DIMENSION_METERS)
           ELSE IF /\ IsNumeric(param[1])
                   /\ ParseFloat(param[1]).value > 0
                   /\ ParseFloat(param[1]).value <= 100
                THEN InvokedWith(ParseFloat(param[1]).value)
           ELSE Refused

\* the network failed before any response arrived
TransportFailure(p) ==
    proc[p].pc = "done" /\ proc[p].outcome = Thrown(FetchRejectedMessage)

\* the source answered with a status that is no success
SourceRefused(p) ==
    /\ proc[p].pc = "done" /\ proc[p].outcome.kind = "thrown"
    /\ \E o \in FetchOutcomes :
          /\ o.settled = "response" /\ ~ResponseOk(o.status)
          /\ proc[p].outcome.message = DownloadFailedMessage(o.status)

\* C13 (as stated in the specification; the code does not do this): every
\* failure of the source fetch, a response that is no success as well as a
\* failure of the transport, is answered by the endpoint with 502.
C13_FetchFailureIsUpstream ==
    proc[Handler].via = "GET" /\ (TransportFailure(Handler) \/ SourceRefused(Handler)) =>
        proc[Handler].response.status = 502

ErrorStatuses == {400, 403, 422, 500, 502}

\* C14: a finished request has either status 200 with the payload of the
\* result that scaleGlbForAR returned, or one of the error statuses with no
\* payload; an error thrown inside scaleGlbForAR never gives 200, and a
\* decoded asset without a scene gives 422.
C14_AllOrNothing ==
    proc[Handler].via = "GET" /\ proc[Handler].pc = "done" =>
        /\ \/ /\ proc[Handler].response.status = 200
              /\ proc[Handler].outcome.kind = "returned"
              /\ proc[Handler].response.body = proc[Handler].outcome.result.glbData
              /\ CanReadBinary(proc[Handler].response.body)
           \/ /\ proc[Handler].response.status \in ErrorStatuses
              /\ proc[Handler].outcome.kind # "returned"
              /\ proc[Handler].response.body = NoBody
        /\ proc[Handler].outcome.kind = "thrown" => proc[Handler].response.status # 200
        /\ proc[Handler].outcome = Thrown(NoSceneMessage) =>
              proc[Handler].response.status = 422

\* C14 witness: the request for the asset without a scene was decoded and
\* answered 422 without payload
C14_Witness ==
    /\ proc[Handler].pc = "done"
    /\ proc[Handler].glbUrl = UrlSceneLess
    /\ proc[Handler].decodes = 1
    /\ proc[Handler].outcome = Thrown(NoSceneMessage)
    /\ proc[Handler].response = ErrorResponse(422)


\* the step ends a call of p with an error
Fails(p) ==
    proc[p].pc # "done" /\ proc'[p].pc = "done" /\ proc'[p].outcome.kind = "thrown"

\* the step adds an entry to the cache or replaces one
CacheWritten ==
    \E k \in DOMAIN cache' : k \notin DOMAIN cache \/ cache'[k] # cache[k]

C12_FailureLeavesCache == \A p \in Procs : Fails(p) => cache' = cache

C12_WrittenAfterPipeline ==
    CacheWritten =>
        \E p \in Procs :
            /\ proc[p].pc = "writing" /\ proc'[p].pc = "done"
            /\ proc'[p].outcome.kind = "returned"
            /\ proc[p].fetched.settled = "response"
            /\ proc[p].fetched.status \in 200..299
            /\ CanReadBinary(proc[p].glbData)
            /\ SelectScene(ReadBinary(proc[p].glbData)) # 0
            /\ \A k \in DOMAIN cache' :
                  k \notin DOMAIN cache \/ cache'[k] # cache[k] => k = CallKey(proc[p])

\* C12: a step in which a call fails (the source answers without success,
\* the transport fails, the bytes cannot be decoded, there is no scene)
\* leaves the cache exactly as it was; the cache is written only by the last
\* step of a call whose fetch got a success response, whose bytes were
\* decoded and had a scene, and only under that call's key.
C12_NoCacheWriteOnFailure == [][C12_FailureLeavesCache /\ C12_WrittenAfterPipeline]_vars

\* C12 witness: a request found its entry expired, its download was answered
\* 404, and the old entry is still the one in the cache
C12_Witness ==
    /\ proc[Handler].pc = "done"
    /\ proc[Handler].lookup = "expired"
    /\ proc[Handler].fetched = [settled |-> "response", status |-> 404]
    /\ proc[Handler].outcome.kind = "thrown"
    /\ CallKey(proc[Handler]) \in DOMAIN cache
    /\ Age(CallKey(proc[Handler])) >= CACHE_TTL_MS


\* p's call missed the cache, ran the pipeline and returned
Computed(p) ==
    /\ proc[p].pc = "done"
    /\ proc[p].lookup # "hit"
    /\ proc[p].outcome.kind = "returned"

\* the largest of the dimensions measured on the model
LargestOf(d) == MathMax3(d.width, d.height, d.depth)

\* C15: a call that missed the cache with customScaleFactor = c returns
\* scaleFactor = c and wasScaled = (c # 1.0), whatever the dimensions of the
\* model, maxDimension and forceScale are.
C15_CustomFactorOverrides ==
    \A p \in Procs :
        Computed(p) /\ proc[p].options.customScaleFactor # Undefined =>
            /\ proc[p].outcome.result.scaleFactor = proc[p].options.customScaleFactor[1]
            /\ proc[p].outcome.result.wasScaled
                  = (proc[p].options.customScaleFactor[1] # Num(1))

\* C15 witness: a computed call with customScaleFactor 1.0, forceScale set
\* and a maximum dimension below the model's size returned unscaled
C15_Witness ==
    /\ Computed(Handler)
    /\ proc[Handler].options =
          [maxDimension |-> Some(1), forceScale |-> TRUE, customScaleFactor |-> Some(Num(1))]
    /\ LargestOf(proc[Handler].outcome.result.originalDimensions) = 2
    /\ proc[Handler].outcome.result.scaleFactor = Num(1)
    /\ ~proc[Handler].outcome.result.wasScaled

\* C16: a call that missed the cache without customScaleFactor returns, with
\* forceScale, wasScaled = true and scaleFactor = maxDimension / largest
\* dimension, also when the model is within the limit; without forceScale
\* it returns wasScaled = (largest dimension > maxDimension).
C16_ForceScaleScales ==
    \A p \in Procs :
        Computed(p) /\ proc[p].options.customScaleFactor = Undefined =>
            LET result == proc[p].outcome.result
                largest == LargestOf(result.originalDimensions)
                maxDimension == OrDefault(proc[p].options.maxDimension, 2)
            IN IF proc[p].options.forceScale
               THEN result.wasScaled /\ result.scaleFactor = FDiv(maxDimension, largest)
               ELSE result.wasScaled = (largest > maxDimension)

\* C16 witness: a computed call with forceScale for a model of 2 m and a
\* maximum dimension of 3 m returned scaled by 1.5
C16_Witness ==
    /\ Computed(Handler)
    /\ proc[Handler].options =
          [maxDimension |-> Some(3), forceScale |-> TRUE, customScaleFactor |-> Undefined]
    /\ LargestOf(proc[Handler].outcome.result.originalDimensions) = 2
    /\ proc[Handler].outcome.result.wasScaled
    /\ proc[Handler].outcome.result.scaleFactor = FDiv(3, 2)
    /\ proc[Handler].outcome.result.scaledDimensions.height = Num(3)

\* C20 (as stated in the specification; the code does not do this): every
\* result returned, computed or served from the cache, has
\* wasScaled = (scaleFactor # 1.0) and scaledDimensions = originalDimensions
\* times scaleFactor on every axis.
C20_ResultConsistent ==
    \A p \in Procs :
        proc[p].pc = "done" /\ proc[p].outcome.kind = "returned" =>
            LET result == proc[p].outcome.result
            IN /\ result.wasScaled = (result.scaleFactor # Num(1))
               /\ \A a \in Axes :
                     result.scaledDimensions[a]
                        = FMul(Num(result.originalDimensions[a]), result.scaleFactor)


C19_EqualResults ==
    \A p \in Procs, q \in Procs :
        /\ p # q /\ Computed(p) /\ Computed(q)
        /\ proc[p].glbUrl = proc[q].glbUrl /\ proc[p].options = proc[q].options
        => /\ proc[p].fetches = 1 /\ proc[p].decodes = 1
           /\ proc[p].outcome.result = proc[q].outcome.result
           /\ CallKey(proc[p]) \in DOMAIN cache
           /\ cache[CallKey(proc[p])].result = proc[p].outcome.result
           /\ cache[CallKey(proc[p])].data = proc[p].outcome.result.glbData
           /\ Cardinality({k \in DOMAIN cache :
                 writer[k] = [glbUrl |-> proc[p].glbUrl,
                              maxDimension |-> maxDimensionOf(proc[p].options)]}) = 1

C19_BothRun ==
    \A p \in Procs :
        Starts(p) /\ CallKey(proc'[p]) \notin DOMAIN cache =>
            proc'[p].pc = "downloading" /\ proc'[p].fetches = 1

C19_LastWriterWins ==
    \A p \in Procs :
        proc[p].pc = "writing" /\ proc'[p].pc = "done" =>
            /\ DOMAIN cache' = DOMAIN cache \cup {CallKey(proc[p])}
            /\ cache'[CallKey(proc[p])] =
                  [data |-> proc'[p].outcome.result.glbData,
                   timestamp |-> now,
                   result |-> proc'[p].outcome.result]
            /\ \A k \in DOMAIN cache : k # CallKey(proc[p]) => cache'[k] = cache[k]

\* C19: a call for a key that is not in the cache starts its download also
\* while another call for the same key is in flight; two calls for the same
\* URL and options that both ran the pipeline return equal results, and the
\* cache holds one entry for the key, with that result; each finisher
\* writes the entry under its key, so the entry is the last finisher's.
C19_ConcurrentFirstRequests ==
    []C19_EqualResults /\ [][C19_BothRun /\ C19_LastWriterWins]_vars

\* C19 witness: both callers found the key missing, both fetched and
\* decoded, both returned the same result, and the one entry in the cache
\* was stored after the clock had moved on
C19_Witness ==
    /\ Computed("r1") /\ Computed("r2")
    /\ proc["r1"].lookup = "miss" /\ proc["r2"].lookup = "miss"
    /\ proc["r1"].options = proc["r2"].options
    /\ proc["r1"].fetches = 1 /\ proc["r2"].fetches = 1
    /\ proc["r1"].outcome.result = proc["r2"].outcome.result
    /\ getCacheStats(cache).size = 1
    /\ cache[CallKey(proc["r1"])].result = proc["r1"].outcome.result
    /\ cache[CallKey(proc["r1"])].timestamp > 0


\* the entry under k in map m is older than the TTL at time t
OlderThanTtl(m, k, t) == t - m[k].timestamp > CACHE_TTL_MS

C17_NoneOldAfterInsertion ==
    \A p \in Procs :
        /\ proc[p].pc = "writing" /\ proc'[p].pc = "done"
        /\ Cardinality(DOMAIN cache) > 50
        => \A k \in DOMAIN cache' : ~OlderThanTtl(cache', k, now')

C17_SweepSparesYoung ==
    \A k \in DOMAIN cache : k \notin DOMAIN cache' => OlderThanTtl(cache, k, now)

\* C17 (as stated in the specification; the code does not do this): when an
\* entry is inserted while the cache holds more than 50 entries, no entry
\* older than the TTL is left in the cache right after the insertion; and
\* an entry that leaves the cache is older than the TTL.
C17_SweepBeforeInsertion == [][C17_NoneOldAfterInsertion /\ C17_SweepSparesYoung]_vars

\* C18 (as stated in the specification; the code does not do this): the
\* cache never holds more entries than the threshold of the sweep plus the
\* one entry a caller inserts after it.
C18_CacheSizeBounded == getCacheStats(cache).size <= CLEANUP_THRESHOLD + 1


(***************************************************************************)
(* Further claims about the calculator (SpecCalc)                          *)
(***************************************************************************)

\* C21: every result of calculateARScaling for a positive maxDimension has
\* isScaled = (scaleFactor # 1.0), largestDimension = the largest of the
\* three input dimensions, and 0 < scaleFactor <= 1; and requiresARScaling
\* of the same arguments is the result's isScaled.
C21_ResultInvariants ==
    Called /\ ArgMax > 0 =>
        /\ calcResult.isScaled = (calcResult.scaleFactor # Num(1))
        /\ calcResult.largestDimension = ArgLargest
        /\ calcResult.scaleFactor.k = "fin"
        /\ NumLeq(calcResult.scaleFactor, Num(1))
        /\ requiresARScaling(calcArgs.dimensions, calcArgs.maxDimension) = calcResult.isScaled

\* C21 witness: a result for a model one metre over an explicit limit, with
\* a factor strictly between 0 and 1
C21_Witness ==
    /\ Called
    /\ calcArgs.maxDimension = Some(3)
    /\ ArgLargest = 4
    /\ calcResult.isScaled
    /\ calcResult.scaleFactor = FDiv(3, 4)
    /\ calcResult.largestDimension = 4


(***************************************************************************)
(* Claims about the AR trigger (SpecTrigger) and fetchThroughProxy         *)
(* (SpecProxy)                                                             *)
(***************************************************************************)

\* the trigger was clicked on an Android device that has a GLB to show
AndroidClicked ==
    /\ trigger.pc = "clicked"
    /\ trigger.props.deviceType = "android"
    /\ trigger.props.glbUrl # Undefined

\* the calculator reports the known dimensions of the model as scaled
ClientReportsScaled ==
    /\ trigger.props.modelDimensions # Undefined
    /\ calculateARScaling(trigger.props.modelDimensions[1], Undefined).isScaled

\* C27: on Android both components open the scene viewer; the file is the
\* endpoint /api/ar-glb?url=<original> with resizable 'false' exactly when
\* calculateARScaling of the model's dimensions reports isScaled, and the
\* original URL with resizable 'true' otherwise, unknown dimensions included.
C27_AndroidRouting ==
    AndroidClicked =>
        /\ trigger.opened.viewer = "scene-viewer"
        /\ trigger.opened.file.url = trigger.props.glbUrl[1]
        /\ (trigger.opened.file.pathname = "/api/ar-glb") = ClientReportsScaled
        /\ (trigger.opened.file.pathname = "") = ~ClientReportsScaled
        /\ (trigger.opened.resizable = "false") = ClientReportsScaled
        /\ (trigger.opened.resizable = "true") = ~ClientReportsScaled

\* C27 witness: the popover on Android, model of 3 m: the endpoint is opened
\* with resizing off
C27_Witness ==
    /\ AndroidClicked
    /\ trigger.props.component = "ARPopover"
    /\ trigger.props.modelDimensions = Some(Dim(0, 3, 2))
    /\ trigger.opened = [viewer |-> "scene-viewer", file |-> ApiUrl(UrlBuilding),
                         resizable |-> "false"]

\* the i-th fetch of the call got a response that is no success and no
\* server error
ClientErrorAt(i) ==
    /\ proxy.fetched[i].settled = "response"
    /\ ~(proxy.fetched[i].status \in 200..299)
    /\ proxy.fetched[i].status < 500

\* C30 (as stated in the specification; the code does not do this):
\* fetchThroughProxy makes at most `retries` fetches, returns the first ok
\* response, goes on to another attempt only after a transport error or a
\* status >= 500, and after a non-ok status below 500 makes no further
\* attempt.
C30_ProxyRetryPolicy ==
    /\ Len(proxy.fetched) <= proxy.retries
    /\ proxy.outcome.kind = "returned" =>
          /\ proxy.outcome.result = proxy.fetched[Len(proxy.fetched)]
          /\ proxy.outcome.result.status \in 200..299
    /\ \A i \in 1..Len(proxy.fetched) :
          /\ proxy.fetched[i].status \in 200..299 =>
                i = Len(proxy.fetched) /\ proxy.outcome.kind = "returned"
          /\ i < Len(proxy.fetched) =>
                proxy.fetched[i].settled = "rejected" \/ proxy.fetched[i].status >= 500
          /\ ClientErrorAt(i) =>
                /\ i = Len(proxy.fetched)
                /\ proxy.pc = "done" /\ proxy.outcome.kind = "thrown"


(***************************************************************************)
(* Further claims about the scaling service                                *)
(***************************************************************************)

C26_OneFetchPerCall ==
    \A p \in Procs :
        /\ proc[p].fetches \in {0, 1}
        /\ proc[p].lookup = "hit" => proc[p].fetches = 0
        /\ proc[p].lookup \in {"miss", "expired"} => proc[p].fetches = 1

C26_FailureEndsCall ==
    \A p \in Procs :
        /\ proc[p].pc = "downloading" /\ proc'[p] # proc[p]
              /\ ~(proc'[p].fetched.settled = "response" /\ proc'[p].fetched.status \in 200..299)
           => /\ proc'[p].pc = "done"
              /\ proc'[p].outcome.kind = "thrown"
              /\ proc'[p].fetches = 1
        /\ proc[p].pc # "idle" /\ proc'[p].pc # "idle" => proc'[p].fetches = proc[p].fetches

\* C26: a call of scaleGlbForAR fetches the source at most once: once when
\* it misses the cache, not at all when it hits; the number of fetches never
\* grows during a call, and a fetch that fails (rejected, or answered
\* without success) ends the call with an error in the same step.
C26_NoRetry == []C26_OneFetchPerCall /\ [][C26_FailureEndsCall]_vars

\* C26 witness: a call that missed the cache, was answered 404 and ended
\* with the download error after its single fetch
C26_Witness ==
    \E p \in Procs :
        /\ proc[p].pc = "done"
        /\ proc[p].lookup = "miss"
        /\ proc[p].fetched = [settled |-> "response", status |-> 404]
        /\ proc[p].fetches = 1
        /\ proc[p].outcome = Thrown(DownloadFailedMessage(404))

\* C29 (as stated in the specification; the code does not do this): every
\* returned result reflects the options of its own call: with
\* customScaleFactor = c the scaleFactor is c, and with forceScale (and no
\* custom factor) wasScaled is true, whatever earlier calls for the same
\* URL and maximum dimension stored.
C29_ResultReflectsOptions ==
    \A p \in Procs :
        proc[p].pc = "done" /\ proc[p].outcome.kind = "returned" =>
            /\ proc[p].options.customScaleFactor # Undefined =>
                  proc[p].outcome.result.scaleFactor = proc[p].options.customScaleFactor[1]
            /\ proc[p].options.forceScale /\ proc[p].options.customScaleFactor = Undefined =>
                  proc[p].outcome.result.wasScaled


(***************************************************************************)
(* Claims on the measured scene and the rewritten asset                    *)
(***************************************************************************)

\* a call of the handler that decoded the bytes it downloaded
Decoded(p) ==
    /\ proc[p].pc = "done"
    /\ proc[p].decodes = 1
    /\ CanReadBinary(proc[p].glbData)

DownloadedDoc(p) == ReadBinary(proc[p].glbData)

\* the scene the claims name: the declared default, else the first listed
DeclaredOrFirst(doc) == IF doc.defaultScene # 0 THEN doc.defaultScene ELSE 1

HasScene(doc) == doc.defaultScene # 0 \/ Len(doc.scenes) > 0

\* C22: for a model whose bounding box has width, height and depth all 0,
\* under every option combination (forceScale included) the call returns a
\* result, and the scaleFactor of the result is finite.
C22_ZeroSizeFinite ==
    /\ Decoded(Handler)
    /\ HasScene(DownloadedDoc(Handler))
    /\ originalDimensionsOf(DownloadedDoc(Handler), DeclaredOrFirst(DownloadedDoc(Handler)))
          = Dim(0, 0, 0)
    => /\ proc[Handler].outcome.kind = "returned"
       /\ IsFiniteNum(proc[Handler].outcome.result.scaleFactor)

\* C23: when the asset is rewritten with factor s, every direct child of
\* the selected scene ends with its previous local scale multiplied
\* componentwise by s; every other node (children of nodes, nodes of other
\* scenes) keeps its scale; when wasScaled is false no node changes.
C23_RootNodesComposed ==
    Decoded(Handler) /\ proc[Handler].outcome.kind = "returned" =>
        LET result == proc[Handler].outcome.result
            before == DownloadedDoc(Handler)
            after == ReadBinary(result.glbData)
            selected == before.scenes[DeclaredOrFirst(before)].children
            roots == {selected[i] : i \in 1..Len(selected)}
        IN /\ Len(after.nodes) = Len(before.nodes)
           /\ after.scenes = before.scenes
           /\ \A n \in 1..Len(before.nodes) :
                 /\ after.nodes[n].children = before.nodes[n].children
                 /\ IF result.wasScaled /\ n \in roots
                    THEN \A i \in 1..3 :
                            after.nodes[n].scale[i]
                               = FMul(before.nodes[n].scale[i], result.scaleFactor)
                    ELSE after.nodes[n].scale = before.nodes[n].scale

\* C23 witness: the figurine rewritten with the factor 0.5: root node 1
\* goes from 1 to 0.5, root node 2, which carried the scale 2, ends with 1,
\* and node 3 of the other scene keeps its scale 1
C23_Witness ==
    /\ Decoded(Handler)
    /\ proc[Handler].glbUrl = UrlFigurine
    /\ proc[Handler].outcome.kind = "returned"
    /\ proc[Handler].outcome.result.wasScaled
    /\ proc[Handler].outcome.result.scaleFactor = FDiv(1, 2)
    /\ ReadBinary(proc[Handler].outcome.result.glbData).nodes[1].scale
          = <<FDiv(1, 2), FDiv(1, 2), FDiv(1, 2)>>
    /\ ReadBinary(proc[Handler].outcome.result.glbData).nodes[2].scale = Vec3(1, 1, 1)
    /\ ReadBinary(proc[Handler].outcome.result.glbData).nodes[3].scale = Vec3(1, 1, 1)

\* the scene that is measured, and the error for an asset without scene
C24_SceneMeasured ==
    Decoded(Handler) =>
        LET doc == DownloadedDoc(Handler)
        IN /\ (proc[Handler].outcome = Thrown(NoSceneMessage)) = ~HasScene(doc)
           /\ HasScene(doc) =>
                 /\ proc[Handler].outcome.kind = "returned"
                 /\ proc[Handler].outcome.result.originalDimensions
                       = originalDimensionsOf(doc, DeclaredOrFirst(doc))

\* the step that raises the no-scene error has decided nothing, rewritten
\* nothing and leaves the cache as it was
C24_ErrorBeforeWork ==
    proc[Handler].pc # "done" /\ proc'[Handler].outcome = Thrown(NoSceneMessage) =>
        /\ proc[Handler].work = NoWork
        /\ proc'[Handler].work = NoWork
        /\ cache' = cache
        /\ writer' = writer

\* C24: the declared default scene is measured when there is one,
\* otherwise the first listed scene; the call fails with 'GLB has no scene'
\* exactly when the asset has neither, and that error is raised before any
\* scale decision, rewrite or cache write.
C24_DefaultSceneElseFirst == []C24_SceneMeasured /\ [][C24_ErrorBeforeWork]_vars

\* C24 witness: the point asset, whose default scene is its second scene,
\* measured as 0 x 0 x 0 and not as the 3 m cube of its first scene
C24_Witness ==
    /\ Decoded(Handler)
    /\ proc[Handler].glbUrl = UrlPoint
    /\ DownloadedDoc(Handler).defaultScene = 2
    /\ proc[Handler].outcome.kind = "returned"
    /\ proc[Handler].outcome.result.originalDimensions = Dim(0, 0, 0)

\* C25: the originalDimensions of every returned result are >= 0 on every
\* axis, also when the bounding box of the scene has min > max.
C25_DimensionsNonNegative ==
    proc[Handler].pc = "done" /\ proc[Handler].outcome.kind = "returned" =>
        /\ proc[Handler].outcome.result.originalDimensions.width >= 0
        /\ proc[Handler].outcome.result.originalDimensions.height >= 0
        /\ proc[Handler].outcome.result.originalDimensions.depth >= 0


(***************************************************************************)
(* Claim on the two implementations of the scaling calculation             *)
(***************************************************************************)

\* an asset whose one scene measures the given dimensions
ModelOf(dimensions) ==
    [BuildingDoc EXCEPT !.scenes =
        <<[children |-> <<1>>,
           bounds |-> Box(<<0, 0, 0>>,
                          <<dimensions.width, dimensions.height, dimensions.depth>>)]>>]

\* what scaleGlbForAR computes for that asset and the maxDimension of the
\* calculator's call, with neither forceScale nor customScaleFactor
ServerSide ==
    ProcessDocument(ModelOf(ArgDims),
                    [NoOptions EXCEPT !.maxDimension = calcArgs.maxDimension],
                    maxDimensionOf([NoOptions EXCEPT !.maxDimension = calcArgs.maxDimension]))

\* C28: for every dimensions triple and every positive maxDimension, with
\* neither forceScale nor customScaleFactor set, scaleGlbForAR computes the
\* same scaleFactor, the same scaled flag and the same scaledDimensions as
\* calculateARScaling.
C28_ClientServerAgree ==
    Called /\ ArgMax > 0 =>
        /\ ServerSide.originalDimensions = calcResult.originalDimensions
        /\ ServerSide.scaleFactor = calcResult.scaleFactor
        /\ ServerSide.wasScaled = calcResult.isScaled
        /\ ServerSide.scaledDimensions = calcResult.scaledDimensions

\* C28 witnesses: a model over the limit, scaled by both sides with the
\* same inexact factor 2/3, and (in another behaviour) a model exactly at
\* the limit, left alone by both
C28_Witness ==
    /\ Called
    /\ ArgMax = 2
    /\ ArgLargest = 3
    /\ calcResult.isScaled
    /\ ServerSide.wasScaled
    /\ ServerSide.scaleFactor = FDiv(2, 3)
    /\ calcResult.scaleFactor = FDiv(2, 3)

=============================================================================
